---------------------------- MODULE Spec2Model ----------------------------
(***************************************************************************)
(* SawitDB: a model of the worker pool (server/DatabaseRegistry.js,        *)
(* SawitWorker.js), of the network front-end (SawitServer.js), of the      *)
(* engine's statement dispatch and transaction routing (WowoEngine.js) and *)
(* of the write-ahead-logged storage the engine opens (WowoEngine.js       *)
(* constructor and close; Pager, WAL and TransactionManager after the      *)
(* specification, sections 4.A, 4.B and 4.F).                              *)
(*                                                                         *)
(* Each subsystem has its own specification (SpecPool, SpecServer,         *)
(* SpecTxn, SpecWal, SpecIndex for IndexManager.js, SpecPages for          *)
(* InsertExecutor.insertMany) over its own group of variables; the         *)
(* variables of the other groups keep their initial values.                *)
(***************************************************************************)
EXTENDS Integers, Sequences, FiniteSets, Bags, TLC

(***************************************************************************)
(* Bounds of the model.                                                    *)
(***************************************************************************)
\* number of worker threads spawned by ThreadPool.start (workerCount)
NumWorkers == 2
\* number of ThreadPool.execute calls explored
MaxRequests == 3

\* number of request frames the connections send, all connections together
MaxFrames == 3

\* Database names as the client supplies them, character by character: one
\* that the name pattern accepts and one that walks out of the data directory.
NameD1 == <<"d", "1">>
NameEsc == <<".", ".", "/", "e">>
DbNames == {NameD1, NameEsc}
\* no database: null, undefined or the empty string (all falsy in the source)
NoDb == <<>>

\* The path of a database file is path.join(dataDir, name + '.sawit'): one path
\* per name, so a path is written as the name it comes from.
Paths == DbNames
Workers == 0 .. (NumWorkers - 1)
RequestIds == 1 .. MaxRequests
Conns == {1, 2}

\* a slot holding nothing (undefined / null in the source)
None == "none"

VARIABLES
    \* ---- ThreadPool (main thread) ----
    isReady,            \* ThreadPool.isReady
    activeTasks,        \* ThreadPool.activeTasks : worker index -> current load
    workerStats,        \* ThreadPool.workerStats : worker index -> total dispatched
    pendingRequests,    \* ThreadPool.pendingRequests : id -> [workerIndex]
    requestIdCounter,   \* ThreadPool.requestIdCounter
    settled,            \* id -> how the promise returned by execute was settled
    \* ---- worker threads ----
    inbox,              \* worker index -> tasks posted to the worker, not yet handled
    outbox,             \* worker index -> replies posted by the worker, not yet handled
    dbCache,            \* worker index -> the paths with an open SawitDB in its dbCache
    \* ---- SawitServer ----
    auth,               \* SawitServer.auth is configured (TRUE) or null (FALSE)
    threadPool,         \* SawitServer.threadPool is set (TRUE) or undefined (FALSE)
    files,              \* the names whose .sawit file exists
    databases,          \* SawitServer.databases : the names with an open SawitDB
    authenticated,      \* connection -> `authenticated` of #handleConnection
    currentDatabase,    \* connection -> `currentDatabase` of #handleConnection
    nReceived,          \* connection -> request frames taken from its buffer
    nSent,              \* connection -> response frames written to its socket
    lastResp,           \* connection -> the last response frame written
    inLoop,             \* the connection whose data handler is inside its while loop
    jobs,               \* continuations of #handleQuery waiting in the microtask queue
    awaiting,           \* pool request id -> the #handleQuery call awaiting it
    engineRuns,         \* statements the front-end's own engines have executed
    \* ---- the SawitDB instance of database d1 (statements and transactions) ----
    db,                 \* its catalog, rows, indexes and TransactionManager state
    lastResult,         \* what query() returned for the last statement
    txOwner,            \* the connection whose BEGIN opened the active transaction
    snapshot,           \* catalog and rows when the active transaction began
    dmlOnly,            \* only INSERT/UPDATE/DELETE/SELECT ran inside the last transaction
    \* ---- one database file with its write-ahead log (storage) ----
    walOpt,             \* options.wal: "absent", "disabled" or "enabled"
    isOpen,             \* a SawitDB instance holds the file (pager # null)
    mainFile,           \* page id -> bytes of the page in the .sawit file
    walFile,            \* the records of the .wal file that reached storage
    walBuf,             \* records appended to the log, not yet flushed
    cache,              \* Pager buffer cache: page id -> bytes as the engine sees them
    dirty,              \* pages written to the cache whose file write is batched
    todo,               \* pages the running statement still has to write
    phase,              \* position inside Pager.writePage
    inStmt,             \* a statement is running
    stmtCount,          \* statements started so far
    committed,          \* page contents when the last statement returned success
    crashedMid,         \* some crash hit a running statement
    crashDirty,         \* the pages whose file write was pending at the last crash
    recovered,          \* the records replayed by the last open (recovered.length)
    \* ---- one SawitDB instance with table t1 and its index on field f ----
    engineOpen,         \* the instance holds its file (pager # null)
    tableRows,          \* the rows of t1 in the file, in scan order
    indexRecords,       \* the rows of the system table _indexes in the file
    indexes,            \* SawitDB.indexes : 'table.field' -> the entries of the BTreeIndex
    \* ---- the pages of one table of one SawitDB instance ----
    dataPages,          \* page id -> next, count, free offset and records of the page
    lastPage,           \* lastPage of the table's catalog entry
    inserted,           \* the rows of the INSERTs that returned, in order
    insertFailed,       \* some INSERT has thrown
    \* ---- one call of QueryParser.parse ----
    parserInput,        \* the tokens of the query string given to parse
    parserOutput,       \* what parse returned, NotParsed before the call
    \* ---- the query() calls of one engine ----
    queryCache,         \* SawitDB.queryCache : the entries of the Map, oldest first
    nextObject,         \* number of objects the parser and the clones have created
    calls,              \* the query requests handled, in order, with the command each executed
    viaPool,            \* the server has a thread pool
    \* ---- table t of one engine, its schema and its triggers ----
    schemas,            \* SchemaManager.schemas.get('t'), NoSchema when undefined
    triggers,           \* TriggerManager.triggers.get('t')
    tableData,          \* the rows written to the pages of t, in order
    indexedRows,        \* the rows given to IndexManager.updateIndexes, in order
    lastInsert,         \* the last INSERT: its data, the schema and triggers it met,
                        \* its result, the number of trigger actions run to their end
    \* ---- one call of _scanTable or of a SELECT ----
    scanInput,          \* the rows of the page chain, the criteria, limit and offset
    scanOutput,         \* the call made and what it returned
    \* ---- the stored procedures of one engine ----
    procedures,         \* ProcedureManager.procedures : name -> params and body
    lastCall,           \* the last JALANKAN SOP: name, args, rows of t before it, result
    \* ---- insertMany on table t: its pages, catalog entry and audit log ----
    catalog,            \* the entry of t: lastPage, records of that page, pages
                        \* allocated and pages written so far
    auditLog,           \* the rows given to AuditLogger.logInsert, in order
    lastBatch,          \* the last insertMany: its rows, the first row that failed
                        \* validation, the BEFORE trigger actions run, its result
    \* ---- the sockets of the server ----
    sockets,            \* socket -> its state, the length of `buffer` of its
                        \* connection, the sockets open when it connected
    clients,            \* SawitServer.clients
    activeConnections,  \* SawitServer.stats.activeConnections
    \* ---- the engines opened for the databases of one server ----
    serverConfig,       \* the config given to the SawitServer constructor
    localEngines,       \* SawitServer.databases : name -> the WAL of its SawitDB
    workerEngines       \* worker -> dbCache : name -> the WAL of its SawitDB

poolVars == <<isReady, activeTasks, workerStats, pendingRequests, requestIdCounter,
              settled, inbox, outbox, dbCache>>

serverVars == <<auth, threadPool, files, databases, authenticated, currentDatabase,
                nReceived, nSent, lastResp, inLoop, jobs, awaiting, engineRuns>>

txnVars == <<db, lastResult, txOwner, snapshot, dmlOnly>>

walVars == <<walOpt, isOpen, mainFile, walFile, walBuf, cache, dirty, todo, phase,
             inStmt, stmtCount, committed, crashedMid, crashDirty, recovered>>

idxVars == <<engineOpen, tableRows, indexRecords, indexes>>

pageVars == <<dataPages, lastPage, inserted, insertFailed>>

parseVars == <<parserInput, parserOutput>>

queryVars == <<queryCache, nextObject, calls, viaPool>>

insertVars == <<schemas, triggers, tableData, indexedRows, lastInsert>>

scanVars == <<scanInput, scanOutput>>

procVars == <<procedures, lastCall>>

batchVars == <<catalog, auditLog, lastBatch>>

connVars == <<sockets, clients, activeConnections>>

openVars == <<serverConfig, localEngines, workerEngines>>

frontVars ==
    <<parseVars, queryVars, insertVars, scanVars, procVars, batchVars, connVars, openVars>>

vars == <<poolVars, serverVars, txnVars, walVars, idxVars, pageVars, frontVars>>

(***************************************************************************)
(* SawitDB: statements and transactions                                    *)
(***************************************************************************)

\* The tables the statements name: t1, which the clients create and drop, and
\* t2, which nobody creates. The one field of a row holds "a" or "b": INSERT
\* plants a row "a", UPDATE turns every "a" into "b" (SET v = 'b' WHERE
\* v = 'a'), DELETE removes the rows "b" (WHERE v = 'b'), SELECT reads all rows.
Tables == {"t1", "t2"}

\* rows a table holds at most
MaxRows == 2
\* operations a transaction buffers at most
MaxBuffer == 2

\* A database just created: no table, no index (`indexed` is the key set of
\* SawitDB.indexes, `indexes` the keys each index holds), no transaction.
EmptyDatabase ==
    [tables |-> {}, rows |-> [t \in Tables |-> <<>>],
     indexed |-> {}, indexes |-> [t \in Tables |-> {}],
     active |-> FALSE, buffer |-> <<>>]

\* What a call returns: whether it returned normally (ok) or threw, the
\* database after it and the value returned (or the error message of the catch
\* block of query()); n is the number of operations a COMMIT or ROLLBACK names.
Returned(e, status, rows, n) ==
    [ok |-> TRUE, db |-> e, result |-> [status |-> status, rows |-> rows, n |-> n]]
Thrown(e, n) ==
    [ok |-> FALSE, db |-> e, result |-> [status |-> "error", rows |-> <<>>, n |-> n]]

\* TableManager.createTable(name)
CreateTable(e, table) ==
    IF table \in e.tables THEN Returned(e, "exists", <<>>, 0)
    ELSE Returned([e EXCEPT !.tables = @ \cup {table}, !.rows[table] = <<>>],
                  "created", <<>>, 0)

\* TableManager.dropTable(name)
DropTable(e, table) ==
    IF table \notin e.tables THEN Returned(e, "missing", <<>>, 0)
    ELSE Returned([e EXCEPT !.tables = @ \ {table}, !.rows[table] = <<>>],
                  "dropped", <<>>, 0)

\* the values of the rows of a sequence
RowKeys(rs) == {rs[i] : i \in 1 .. Len(rs)}

\* IndexManager.createIndex(table, field)
CreateIndex(e, table) ==
    IF table \notin e.tables THEN Thrown(e, 0)
    ELSE IF table \in e.indexed THEN Returned(e, "exists", <<>>, 0)
    ELSE Returned([e EXCEPT !.indexed = @ \cup {table},
                            !.indexes[table] = RowKeys(e.rows[table])],
                  "created", <<>>, 0)

\* InsertExecutor.execute(cmd) / insertMany: a missing table throws; the row is
\* appended to the last page and handed to IndexManager.updateIndexes(table,
\* data, null), which inserts its key into the indexes of the table.
InsertExecute(e, cmd) ==
    IF cmd.table \notin e.tables THEN Thrown(e, 0)
    ELSE Returned([e EXCEPT !.rows[cmd.table] = Append(@, "a"),
                            !.indexes[cmd.table] =
                                IF cmd.table \in e.indexed THEN @ \cup {"a"} ELSE @],
                  "ok", <<>>, 0)

\* UpdateExecutor.execute(cmd): every row "a" becomes "b"; for a changed row
\* IndexManager.updateIndexes(table, newObj, oldObj) deletes the old key and
\* inserts the new one.
UpdateExecute(e, cmd) ==
    IF cmd.table \notin e.tables THEN Thrown(e, 0)
    ELSE LET old == e.rows[cmd.table]
             changed == "a" \in RowKeys(old)
         IN  Returned([e EXCEPT !.rows[cmd.table] =
                                    [i \in 1 .. Len(old) |-> "b"],
                                !.indexes[cmd.table] =
                                    IF cmd.table \in e.indexed /\ changed
                                    THEN (@ \ {"a"}) \cup {"b"} ELSE @],
                      "ok", <<>>, 0)

\* a row that the DELETE leaves in place
Stays(v) == v # "b"

\* DeleteExecutor.execute(cmd): the rows "b" are removed; for a removed row
\* IndexManager.removeFromIndexes(table, data) deletes its key.
DeleteExecute(e, cmd) ==
    IF cmd.table \notin e.tables THEN Thrown(e, 0)
    ELSE LET old == e.rows[cmd.table]
             removed == "b" \in RowKeys(old)
         IN  Returned([e EXCEPT !.rows[cmd.table] = SelectSeq(old, Stays),
                                !.indexes[cmd.table] =
                                    IF cmd.table \in e.indexed /\ removed
                                    THEN @ \ {"b"} ELSE @],
                      "ok", <<>>, 0)

\* SelectExecutor.execute(cmd): the rows of the table as they are stored
SelectExecute(e, cmd) ==
    IF cmd.table \notin e.tables THEN Thrown(e, 0)
    ELSE Returned(e, "rows", e.rows[cmd.table], 0)

\* TransactionManager.isActive()
IsActive(e) == e.active

\* TransactionManager.begin(): an error inside an active transaction
TxBegin(e) ==
    IF e.active THEN Thrown(e, 0)
    ELSE Returned([e EXCEPT !.active = TRUE, !.buffer = <<>>], "begun", <<>>, 0)

\* TransactionManager.bufferOperation(kind, cmd)
BufferOperation(e, kind, cmd) ==
    Returned([e EXCEPT !.buffer = Append(@, cmd)], "buffered", <<>>, 0)

\* TransactionManager.rollback(): the buffer is discarded
TxRollback(e) ==
    IF ~e.active THEN Thrown(e, 0)
    ELSE Returned([e EXCEPT !.active = FALSE, !.buffer = <<>>],
                  "rolled_back", <<>>, Len(e.buffer))

\* one buffered operation against its live executor
Apply(e, cmd) ==
    CASE cmd.type = "INSERT" -> InsertExecute(e, cmd)
      [] cmd.type = "UPDATE" -> UpdateExecute(e, cmd)
      [] cmd.type = "DELETE" -> DeleteExecute(e, cmd)

\* the buffered operations in order against the live executors, up to the
\* first one that throws
RECURSIVE Replay(_, _)
Replay(e, ops) ==
    IF ops = <<>> THEN Returned(e, "committed", <<>>, 0)
    ELSE LET r == Apply(e, Head(ops))
         IN  IF r.ok THEN Replay(r.db, Tail(ops)) ELSE r

\* TransactionManager.commit(): replay; a failure aborts and rolls back, which
\* discards the buffer
TxCommit(e) ==
    IF ~e.active THEN Thrown(e, 0)
    ELSE LET r == Replay(e, e.buffer)
             ended == [r.db EXCEPT !.active = FALSE, !.buffer = <<>>]
         IN  IF r.ok THEN Returned(ended, "committed", <<>>, Len(e.buffer))
             ELSE Thrown(ended, Len(e.buffer))

\* SawitDB.query, case 'INSERT' (QueryInsertDirect: the case without its test
\* of the transaction manager)
QueryInsertDirect(e, cmd) == InsertExecute(e, cmd)
QueryInsert(e, cmd) ==
    IF IsActive(e) THEN BufferOperation(e, "INSERT", cmd) ELSE InsertExecute(e, cmd)

\* SawitDB.query, case 'DELETE' (QueryDeleteDirect: the case without its test
\* of the transaction manager)
QueryDeleteDirect(e, cmd) == DeleteExecute(e, cmd)
QueryDelete(e, cmd) ==
    IF IsActive(e) THEN BufferOperation(e, "DELETE", cmd) ELSE DeleteExecute(e, cmd)

\* SawitDB.query, case 'UPDATE'
QueryUpdate(e, cmd) ==
    IF IsActive(e) THEN BufferOperation(e, "UPDATE", cmd) ELSE UpdateExecute(e, cmd)

\* SawitDB.query(queryString, params) from its switch on: the parsed command
\* is dispatched, and what a callee throws is returned as an error string.
Query(e, cmd) ==
    CASE cmd.type = "CREATE_TABLE" -> CreateTable(e, cmd.table)
      [] cmd.type = "INSERT" -> QueryInsert(e, cmd)
      [] cmd.type = "SELECT" -> SelectExecute(e, cmd)
      [] cmd.type = "DELETE" -> QueryDelete(e, cmd)
      [] cmd.type = "UPDATE" -> QueryUpdate(e, cmd)
      [] cmd.type = "DROP_TABLE" -> DropTable(e, cmd.table)
      [] cmd.type = "CREATE_INDEX" -> CreateIndex(e, cmd.table)
      [] cmd.type = "BEGIN_TRANSACTION" -> TxBegin(e)
      [] cmd.type = "COMMIT" -> TxCommit(e)
      [] cmd.type = "ROLLBACK" -> TxRollback(e)

\* ---- the statements the clients send ----
Dml == {"INSERT", "UPDATE", "DELETE"}
Commands ==
    {[type |-> k, table |-> "t1"] :
        k \in Dml \cup {"SELECT", "CREATE_TABLE", "DROP_TABLE", "CREATE_INDEX"}}
    \cup {[type |-> k, table |-> "t2"] : k \in {"INSERT", "SELECT"}}
    \cup {[type |-> k, table |-> None] : k \in {"BEGIN_TRANSACTION", "COMMIT", "ROLLBACK"}}

\* the INSERTs into a table among buffered operations
RECURSIVE CountInserts(_, _)
CountInserts(ops, table) ==
    IF ops = <<>> THEN 0
    ELSE (IF Head(ops).type = "INSERT" /\ Head(ops).table = table THEN 1 ELSE 0)
         + CountInserts(Tail(ops), table)

\* catalog and rows of a database
Stored(e) == [tables |-> e.tables, rows |-> e.rows]

\* A client statement on connection c, executed by the front-end itself:
\* #handleQuery takes the engine of the connection's current database from
\* #getOrCreateDatabase, one SawitDB instance per database name for all
\* connections, and calls its query().
TxnQuery(c, cmd) ==
    /\ ~threadPool
    /\ currentDatabase[c] = NameD1
    /\ NameD1 \in databases
    /\ cmd.type = "INSERT" =>
          Len(db.rows[cmd.table]) + CountInserts(db.buffer, cmd.table) < MaxRows
    /\ (cmd.type \in Dml /\ db.active) => Len(db.buffer) < MaxBuffer
    /\ LET r == Query(db, cmd)
           begins == cmd.type = "BEGIN_TRANSACTION" /\ r.ok
       IN  /\ db' = r.db
           /\ lastResult' = r.result
           /\ txOwner' = IF begins THEN c ELSE IF r.db.active THEN txOwner ELSE 0
           /\ snapshot' = IF begins THEN Stored(db)
                          ELSE IF r.db.active THEN snapshot
                          ELSE Stored(EmptyDatabase)
           /\ dmlOnly' = IF begins THEN TRUE
                         ELSE IF db.active
                              THEN dmlOnly /\ cmd.type \in Dml \cup {"SELECT", "COMMIT", "ROLLBACK"}
                              ELSE dmlOnly
    /\ UNCHANGED <<poolVars, serverVars>>

\* the engine of d1 before any statement
TxnAtRest ==
    /\ db = EmptyDatabase
    /\ lastResult = [status |-> None, rows |-> <<>>, n |-> 0]
    /\ txOwner = 0
    /\ snapshot = Stored(EmptyDatabase)
    /\ dmlOnly = TRUE

(***************************************************************************)
(* SawitDB: the database file, its Pager and its write-ahead log           *)
(***************************************************************************)

\* pages of the database file
NumPages == 2
\* statements that write pages
MaxStatements == 2

Pages == 1 .. NumPages
\* a file of zeroed pages; the bytes of a written page are named by the number
\* of the statement that wrote them
ZeroPages == [p \in Pages |-> 0]

PageRecord(p, bytes) == [op |-> "page", page |-> p, bytes |-> bytes]
CommitRecord == [op |-> "commit", page |-> 0, bytes |-> 0]

\* the page sequences a statement writes (InsertExecutor.insertMany: the last
\* page of the table, or the full page and then the page allocated after it)
PageLists == {<<p>> : p \in Pages} \cup {<<p, q>> : p, q \in Pages}

\* SawitDB constructor: this.wal = options.wal ? new WAL(...) : null, handed to
\* new Pager(filePath, this.wal)
PagerWithoutWal == FALSE
WalAttached == walOpt # "absent"

\* WAL.enabled, from the `enabled` field of the options
WalEnabled == walOpt = "enabled"

\* SawitDB constructor: if (this.wal && this.wal.enabled) this.wal.recover()
NeverRecover == FALSE
ShouldRecover == walOpt # "absent" /\ WalEnabled

\* the position of the latest commit record of a log, 0 when it has none
LastCommit(w) ==
    LET cs == {i \in 1 .. Len(w) : w[i].op = "commit"}
    IN  IF cs = {} THEN 0 ELSE CHOOSE i \in cs : \A k \in cs : k <= i

\* the page records of a log that a commit record follows
CommittedWrites(w, p) ==
    {i \in 1 .. LastCommit(w) : w[i].op = "page" /\ w[i].page = p}

\* WAL.recover(): the committed page records applied to the file in log order,
\* so that a page ends with the bytes of its last committed record
Replayed(file, w) ==
    [p \in Pages |->
        LET ws == CommittedWrites(w, p)
        IN  IF ws = {} THEN file[p]
            ELSE w[CHOOSE i \in ws : \A k \in ws : k <= i].bytes]

\* new SawitDB(filePath, options): recovery (replay, then truncation of the
\* log), then the Pager on the file
Open ==
    /\ ~isOpen
    /\ LET file == IF ShouldRecover THEN Replayed(mainFile, walFile) ELSE mainFile
       IN  /\ mainFile' = file
           /\ cache' = file
    /\ walFile' = IF ShouldRecover THEN <<>> ELSE walFile
    /\ recovered' = IF ShouldRecover THEN LastCommit(walFile) ELSE 0
    /\ isOpen' = TRUE
    /\ UNCHANGED <<walOpt, walBuf, dirty, todo, phase, inStmt, stmtCount,
                   committed, crashedMid, crashDirty>>

\* SawitDB.close(): wal.close(), then pager.close(), which writes the batched
\* pages to the file
Close ==
    /\ isOpen /\ ~inStmt
    /\ walFile' = walFile \o walBuf
    /\ walBuf' = <<>>
    /\ mainFile' = [p \in Pages |-> IF p \in dirty THEN cache[p] ELSE mainFile[p]]
    /\ dirty' = {}
    /\ cache' = ZeroPages
    /\ isOpen' = FALSE
    /\ crashDirty' = {}
    /\ UNCHANGED <<walOpt, todo, phase, inStmt, stmtCount, committed, crashedMid,
                   recovered>>

\* a statement that writes pages starts (query() calls the executor)
BeginStatement(ps) ==
    /\ isOpen /\ ~inStmt
    /\ stmtCount < MaxStatements
    /\ stmtCount' = stmtCount + 1
    /\ inStmt' = TRUE
    /\ todo' = ps
    /\ phase' = "log"
    /\ UNCHANGED <<walOpt, isOpen, mainFile, walFile, walBuf, cache, dirty,
                   committed, crashedMid, crashDirty, recovered>>

\* Pager.writePage(id, bytes), first step: the log record is appended
WalAppend ==
    /\ isOpen /\ inStmt /\ todo # <<>> /\ phase = "log"
    /\ walBuf' = IF WalAttached /\ WalEnabled
                 THEN Append(walBuf, PageRecord(Head(todo), stmtCount))
                 ELSE walBuf
    /\ phase' = "flush"
    /\ UNCHANGED <<walOpt, isOpen, mainFile, walFile, cache, dirty, todo, inStmt,
                   stmtCount, committed, crashedMid, crashDirty, recovered>>

\* Pager.writePage, second step: the log is flushed to storage
WalFlush ==
    /\ isOpen /\ inStmt /\ phase = "flush"
    /\ walFile' = walFile \o walBuf
    /\ walBuf' = <<>>
    /\ phase' = "page"
    /\ UNCHANGED <<walOpt, isOpen, mainFile, cache, dirty, todo, inStmt,
                   stmtCount, committed, crashedMid, crashDirty, recovered>>

\* Pager.writePage, last step: the page is written, to the file at once or
\* to the cache with its file write batched
PageWrite(batched) ==
    /\ isOpen /\ inStmt /\ phase = "page"
    /\ cache' = [cache EXCEPT ![Head(todo)] = stmtCount]
    /\ IF batched
       THEN /\ dirty' = dirty \cup {Head(todo)}
            /\ UNCHANGED mainFile
       ELSE /\ dirty' = dirty \ {Head(todo)}
            /\ mainFile' = [mainFile EXCEPT ![Head(todo)] = stmtCount]
    /\ todo' = Tail(todo)
    /\ phase' = "log"
    /\ UNCHANGED <<walOpt, isOpen, walFile, walBuf, inStmt, stmtCount,
                   committed, crashedMid, crashDirty, recovered>>

\* the statement returns success: its commit marker is in the log before it does
StatementEnd ==
    /\ isOpen /\ inStmt /\ todo = <<>>
    /\ walFile' = IF WalAttached /\ WalEnabled
                  THEN (walFile \o walBuf) \o <<CommitRecord>>
                  ELSE walFile
    /\ walBuf' = <<>>
    /\ committed' = cache
    /\ inStmt' = FALSE
    /\ UNCHANGED <<walOpt, isOpen, mainFile, cache, dirty, todo, phase,
                   stmtCount, crashedMid, crashDirty, recovered>>

\* a batched page write reaches the file
PagerFlush(p) ==
    /\ isOpen /\ p \in dirty
    /\ mainFile' = [mainFile EXCEPT ![p] = cache[p]]
    /\ dirty' = dirty \ {p}
    /\ UNCHANGED <<walOpt, isOpen, walFile, walBuf, cache, todo, phase, inStmt,
                   stmtCount, committed, crashedMid, crashDirty, recovered>>

\* the process dies: what is in memory is lost, the two files stay
Crash ==
    /\ isOpen
    /\ isOpen' = FALSE
    /\ walBuf' = <<>>
    /\ cache' = ZeroPages
    /\ dirty' = {}
    /\ todo' = <<>>
    /\ phase' = "log"
    /\ inStmt' = FALSE
    /\ crashedMid' = (crashedMid \/ inStmt)
    /\ crashDirty' = dirty
    /\ UNCHANGED <<walOpt, mainFile, walFile, stmtCount, committed, recovered>>

\* a new, empty database file opened by its first SawitDB instance
WalFresh ==
    /\ isOpen = TRUE
    /\ mainFile = ZeroPages
    /\ walFile = <<>>
    /\ walBuf = <<>>
    /\ cache = ZeroPages
    /\ dirty = {}
    /\ todo = <<>>
    /\ phase = "log"
    /\ inStmt = FALSE
    /\ stmtCount = 0
    /\ committed = ZeroPages
    /\ crashedMid = FALSE
    /\ crashDirty = {}
    /\ recovered = 0

\* the storage while another subsystem is explored on its own
WalAtRest == walOpt = "absent" /\ WalFresh

(***************************************************************************)
(* SawitDB: one table and its secondary index (IndexManager)               *)
(***************************************************************************)

\* most records the system table _indexes receives
MaxIndexRecords == 2

\* A row of t1 is {id, f}, or {id} alone when f is None. Two rows can hold
\* the same value of f, and nothing keeps ids apart either.
RowIds == {"r1", "r2"}
FieldValues == {"a", "b"}
TableRowSet == [id : RowIds, f : FieldValues \cup {None}]

\* the argument `null` of updateIndexes
NullObj == [id |-> None, f |-> None]

\* the one index the statements create: on field f of table t1
IndexKey == "t1.f"
IndexRecord == [table |-> "t1", field |-> "f"]

\* record.hasOwnProperty(field) for the field f
HasField(obj) == obj.f # None

\* BTreeIndex.insert(key, rowRef): one more entry <<key, rowRef>>
BTreeInsert(index, key, rowRef) == index (+) SetToBag({<<key, rowRef>>})

\* BTreeIndex.delete(key): the entry of the key goes, with every row
\* reference filed under it
BTreeDelete(index, key) ==
    [entry \in {x \in DOMAIN index : x[1] # key} |-> index[entry]]

\* BTreeIndex.find(key): the row references filed under the key
BTreeFind(index, key) ==
    [entry \in {x \in DOMAIN index : x[1] = key} |-> index[entry]]

\* The loop of createIndex and loadIndexes over the scanned records: every
\* record that has the field is inserted under its value.
RECURSIVE BuildIndex(_)
BuildIndex(allRecords) ==
    IF allRecords = <<>> THEN EmptyBag
    ELSE LET record == allRecords[Len(allRecords)]
             index == BuildIndex(SubSeq(allRecords, 1, Len(allRecords) - 1))
         IN  IF HasField(record) THEN BTreeInsert(index, record.f, record)
             ELSE index

\* IndexManager.updateIndexes(table, newObj, oldObj) on the map of indexes
UpdateIndexes(map, newObj, oldObj) ==
    [k \in DOMAIN map |->
        LET removed ==
                IF /\ oldObj # NullObj /\ HasField(oldObj)
                   /\ (newObj = NullObj \/ newObj.f # oldObj.f)
                THEN BTreeDelete(map[k], oldObj.f)
                ELSE map[k]
        IN  IF /\ newObj # NullObj /\ HasField(newObj)
               /\ (oldObj = NullObj \/ newObj.f # oldObj.f)
            THEN BTreeInsert(removed, newObj.f, newObj)
            ELSE removed]

\* IndexManager.removeFromIndexes(table, data) on the map of indexes
RemoveFromIndexes(map, data) ==
    [k \in DOMAIN map |->
        IF HasField(data) THEN BTreeDelete(map[k], data.f) ELSE map[k]]

\* `this.db._select` in loadIndexes: SawitDB has the methods _findTableEntry,
\* _checkMatch, _updateIndexes, _removeFromIndexes, _insert,
\* _updateTableLastPage, _delete and _scanTable, and no _select.
DbHasSelect == FALSE

\* IndexManager.loadIndexes() on the fresh, empty map of a new instance
LoadIndexes ==
    IF ~DbHasSelect THEN << >>
    ELSE [k \in {IndexKey : i \in 1 .. Len(indexRecords)} |-> BuildIndex(tableRows)]

\* INSERT INTO t1: InsertExecutor.insertMany appends the row and then updates
\* the indexes of the table.
IndexedInsert(row) ==
    /\ engineOpen
    /\ Len(tableRows) < MaxRows
    /\ tableRows' = Append(tableRows, row)
    /\ indexes' = UpdateIndexes(indexes, row, NullObj)
    /\ UNCHANGED <<engineOpen, indexRecords>>

\* the rows of rs that are kept, in order
RECURSIVE Without(_, _)
Without(rs, id) ==
    IF rs = <<>> THEN <<>>
    ELSE IF Head(rs).id = id THEN Without(Tail(rs), id)
         ELSE <<Head(rs)>> \o Without(Tail(rs), id)

\* the indexes after removeFromIndexes for each row of rs with the id
RECURSIVE RemoveEach(_, _, _)
RemoveEach(map, rs, id) ==
    IF rs = <<>> THEN map
    ELSE RemoveEach(IF Head(rs).id = id THEN RemoveFromIndexes(map, Head(rs)) ELSE map,
                    Tail(rs), id)

\* DELETE FROM t1 WHERE id = <id>: every matching row leaves its page and is
\* removed from the indexes.
IndexedDelete(id) ==
    /\ engineOpen
    /\ tableRows' = Without(tableRows, id)
    /\ indexes' = RemoveEach(indexes, tableRows, id)
    /\ UNCHANGED <<engineOpen, indexRecords>>

\* the rows after SET f = v on the rows with the id
Rewritten(rs, id, v) ==
    [i \in 1 .. Len(rs) |-> IF rs[i].id = id THEN [rs[i] EXCEPT !.f = v] ELSE rs[i]]

\* the indexes after updateIndexes(table, newObj, oldObj) for each such row
RECURSIVE UpdateEach(_, _, _, _)
UpdateEach(map, rs, id, v) ==
    IF rs = <<>> THEN map
    ELSE UpdateEach(IF Head(rs).id = id
                    THEN UpdateIndexes(map, [Head(rs) EXCEPT !.f = v], Head(rs))
                    ELSE map,
                    Tail(rs), id, v)

\* UPDATE t1 SET f = <v> WHERE id = <id>
IndexedUpdate(id, v) ==
    /\ engineOpen
    /\ tableRows' = Rewritten(tableRows, id, v)
    /\ indexes' = UpdateEach(indexes, tableRows, id, v)
    /\ UNCHANGED <<engineOpen, indexRecords>>

\* CREATE INDEX ON t1 (f): IndexManager.createIndex(table, field)
IndexCreate ==
    /\ engineOpen
    /\ IF IndexKey \in DOMAIN indexes
       THEN UNCHANGED <<indexes, indexRecords>>
       ELSE /\ Len(indexRecords) < MaxIndexRecords
            /\ indexes' = [k \in DOMAIN indexes \cup {IndexKey} |->
                              IF k = IndexKey THEN BuildIndex(tableRows) ELSE indexes[k]]
            /\ indexRecords' = Append(indexRecords, IndexRecord)
    /\ UNCHANGED <<engineOpen, tableRows>>

\* SawitDB.close(): the pager is closed and dropped
EngineClose ==
    /\ engineOpen
    /\ engineOpen' = FALSE
    /\ UNCHANGED <<tableRows, indexRecords, indexes>>

\* new SawitDB(filePath) on the closed file: this.indexes = new Map(), then
\* _initSystem, which finds _indexes in the catalog and calls loadIndexes.
EngineReopen ==
    /\ ~engineOpen
    /\ engineOpen' = TRUE
    /\ indexes' = LoadIndexes
    /\ UNCHANGED <<tableRows, indexRecords>>

\* the rows of rs with f = v, as a bag
RECURSIVE ScanEqual(_, _)
ScanEqual(rs, v) ==
    IF rs = <<>> THEN EmptyBag
    ELSE IF Head(rs).f = v THEN ScanEqual(Tail(rs), v) (+) SetToBag({Head(rs)})
         ELSE ScanEqual(Tail(rs), v)

\* SELECT * FROM t1 WHERE f = <v> by the index: the row references found
IndexEqual(index, v) ==
    LET found == BTreeFind(index, v)
    IN  [row \in {entry[2] : entry \in DOMAIN found} |-> found[<<v, row>>]]

\* a fresh instance on a new file: t1 created and empty, _indexes created by
\* _initSystem, no index
IdxAtRest ==
    /\ engineOpen = TRUE
    /\ tableRows = <<>>
    /\ indexRecords = <<>>
    /\ indexes = << >>

(***************************************************************************)
(* SawitDB: the pages of one table under InsertExecutor.insertMany         *)
(***************************************************************************)

\* most pages the table's file grows to, most rows of one INSERT
MaxPages == 3
MaxBatch == 2

\* Pager.PAGE_SIZE, the bytes of a page header (next at 0, count at 4, free
\* offset at 6) and the largest value writeUInt16LE accepts
PAGE_SIZE == 4096
HeaderSize == 8
UInt16Max == 65535

\* The lengths in bytes of JSON.stringify(data) the statements insert: rows
\* of which several fit a page, rows of which one fits, rows larger than a
\* page, and rows whose length needs more than sixteen bits.
RecordLens == {1000, 3000, 5000, 65530, 70000}
InsertRows == [id : RowIds, len : RecordLens]
Batches == UNION {[1 .. n -> InsertRows] : n \in 1 .. MaxBatch}

\* a page as allocPage returns it
FreshPage == [next |-> 0, count |-> 0, freeOffset |-> HeaderSize, items |-> <<>>]

\* the bytes dataBuf.copy(pData, freeOffset + 2) copies: what fits the buffer
Copied(recordLen, freeOffset) ==
    IF freeOffset + 2 + recordLen <= PAGE_SIZE THEN recordLen
    ELSE PAGE_SIZE - (freeOffset + 2)

\* One turn of the loop of insertMany. st holds the pages in the pager, the
\* locals currentPageId, pData and startPageChanged, and whether a write of
\* an out-of-range value has thrown.
InsertOne(st, data) ==
    LET totalLen == 2 + data.len
        split == st.pData.freeOffset + totalLen > PAGE_SIZE
        newPageId == Len(st.pages) + 1
        \* writeUInt16LE(freeOffset, 6) of the full page
        splitThrows == split /\ st.pData.freeOffset > UInt16Max
        afterSplit ==
            IF ~split \/ splitThrows THEN st
            ELSE [st EXCEPT
                    !.pages = Append([st.pages EXCEPT ![st.currentPageId] =
                                         [st.pData EXCEPT !.next = newPageId]],
                                     FreshPage),
                    !.currentPageId = newPageId,
                    !.pData = FreshPage,
                    !.startPageChanged = TRUE]
        freeOffset == afterSplit.pData.freeOffset
    IN  IF st.thrown THEN st
        ELSE IF splitThrows \/ data.len > UInt16Max
             THEN [afterSplit EXCEPT !.thrown = TRUE]
        ELSE [afterSplit EXCEPT
                !.pData.items = Append(@, [id |-> data.id, len |-> data.len,
                                           stored |-> Copied(data.len, freeOffset)]),
                !.pData.freeOffset = freeOffset + totalLen,
                !.pData.count = @ + 1]

RECURSIVE InsertLoop(_, _)
InsertLoop(st, dataArray) ==
    IF dataArray = <<>> THEN st
    ELSE InsertLoop(InsertOne(st, Head(dataArray)), Tail(dataArray))

\* InsertExecutor.insertMany(table, dataArray): the loop from the last page of
\* the catalog entry, the final write, the update of lastPage after a split.
\* An exception leaves the pages written so far and lastPage as they are.
InsertMany(dataArray) ==
    /\ Len(dataPages) + Len(dataArray) <= MaxPages
    /\ LET st == InsertLoop([pages |-> dataPages, currentPageId |-> lastPage,
                             pData |-> dataPages[lastPage],
                             startPageChanged |-> FALSE, thrown |-> FALSE],
                            dataArray)
           finalThrows == st.pData.freeOffset > UInt16Max
       IN  IF st.thrown \/ finalThrows
           THEN /\ dataPages' = st.pages
                /\ insertFailed' = TRUE
                /\ UNCHANGED <<lastPage, inserted>>
           ELSE /\ dataPages' = [st.pages EXCEPT ![st.currentPageId] = st.pData]
                /\ lastPage' = IF st.startPageChanged THEN st.currentPageId ELSE lastPage
                /\ inserted' = inserted \o dataArray
                /\ UNCHANGED insertFailed

\* the catalog entry's startPage: the page createTable allocated
StartPage == 1

\* the rows a page yields to a reader: a record stored whole is the row that
\* was inserted, a record cut short is not
PageItems(page) ==
    [i \in 1 .. Len(page.items) |->
        IF page.items[i].stored = page.items[i].len
        THEN [id |-> page.items[i].id, len |-> page.items[i].len]
        ELSE [id |-> None, len |-> page.items[i].stored]]

\* SawitDB._scanTable(entry, null): the items of the pages of the chain,
\* from currentPageId until next = 0 (n bounds the walk)
RECURSIVE ScanTable(_, _)
ScanTable(currentPageId, n) ==
    IF currentPageId = 0 \/ n = 0 THEN <<>>
    ELSE PageItems(dataPages[currentPageId])
            \o ScanTable(dataPages[currentPageId].next, n - 1)

\* the last page of the chain that starts at currentPageId
RECURSIVE ChainEnd(_, _)
ChainEnd(currentPageId, n) ==
    IF dataPages[currentPageId].next = 0 \/ n = 0 THEN currentPageId
    ELSE ChainEnd(dataPages[currentPageId].next, n - 1)

\* table t1 as createTable leaves it: one empty page, first and last
PagesAtRest ==
    /\ dataPages = <<FreshPage>>
    /\ lastPage = StartPage
    /\ inserted = <<>>
    /\ insertFailed = FALSE

(***************************************************************************)
(* QueryParser                                                             *)
(*                                                                         *)
(* A query string is represented by the sequence of lexemes that the       *)
(* tokenRegex of QueryParser.tokenize matches in it.  Indices into a token *)
(* array are the 0-based indices of the code.                              *)
(***************************************************************************)
\* the value of tokens[i] past the end of the array
Undefined == "undefined"

At(tokens, i) == IF i >= 0 /\ i < Len(tokens) THEN tokens[i + 1] ELSE Undefined

\* tokens.slice(i)
Slice(tokens, i) == IF i >= Len(tokens) THEN <<>> ELSE SubSeq(tokens, i + 1, Len(tokens))

\* String.prototype.toUpperCase on the lexemes written in lower case
LowerCase ==
    ("and" :> "AND") @@ ("or" :> "OR") @@ ("where" :> "WHERE") @@ ("select" :> "SELECT")
        @@ ("from" :> "FROM") @@ ("t" :> "T") @@ ("a" :> "A") @@ ("b" :> "B")
        @@ ("v" :> "V") @@ ("ix" :> "IX") @@ ("true" :> "TRUE") @@ ("x" :> "X")

ToUpperCase(token) == IF token \in DOMAIN LowerCase THEN LowerCase[token] ELSE token

\* val.slice(1, -1) on the quoted lexemes
Quoted == ("'x'" :> "x") @@ ("'1'" :> "1") @@ ("'true'" :> "true")

\* Number(val) on the lexemes that are not NaN, as the decimal the number prints as
Numerals == ("1" :> "1") @@ ("2" :> "2") @@ ("1.0" :> "1") @@ ("0" :> "0")

\* a value of a command: its JavaScript type and its printed form
Val(kind, text) == [kind |-> kind, text |-> text, items |-> <<>>]
ArrayVal(items) == [kind |-> "array", text |-> "", items |-> items]
UndefinedVal == Val("undefined", "")
NullVal == Val("null", "")

\* if (val && quoted) val = val.slice(1, -1); else if (val && !isNaN(val)) val = Number(val)
NormalizeValue(val) ==
    IF val = Undefined THEN UndefinedVal
    ELSE IF val \in DOMAIN Quoted THEN Val("string", Quoted[val])
    ELSE IF val \in DOMAIN Numerals THEN Val("number", Numerals[val])
    ELSE Val("string", val)

\* an exception on its way to the caller
Throw(message) == [type |-> "THROW", message |-> message]
TypeError == Throw("TypeError")
IsThrow(result) == result.type = "THROW"

\* a loop of the parser that never ends
Diverges == [type |-> "DIVERGES"]

LogicTokens == {"AND", "OR", "DAN", "ATAU"}
WhereBreakTokens ==
    {"DENGAN", "ORDER", "URUTKAN", "LIMIT", "HANYA", "OFFSET", "MULAI", "LANGKAHI",
     "GROUP", "KELOMPOK", ")", ";"}

Cond(key, op, val) == [type |-> "cond", key |-> key, op |-> op, val |-> val]
Logic(op) == [type |-> "logic", op |-> op]
Compound(logic, conditions) == [type |-> "compound", logic |-> logic, conditions |-> conditions]
UndefinedNode == [type |-> "undefined"]
NullCriteria == [type |-> "null"]

\* the values between '(' at p - 1 and ')' of an IN list: the scan stops at the
\* end of the tokens; v.startsWith throws on a missing token
RECURSIVE InValues(_, _, _)
InValues(tokens, p, values) ==
    IF At(tokens, p) = ")" THEN [thrown |-> FALSE, p |-> p, values |-> values]
    ELSE IF At(tokens, p) = Undefined THEN [thrown |-> TRUE, p |-> p, values |-> values]
    ELSE LET pushed == IF At(tokens, p) # ","
                       THEN Append(values, NormalizeValue(At(tokens, p)))
                       ELSE values
         IN  IF p + 1 >= Len(tokens) THEN [thrown |-> FALSE, p |-> p + 1, values |-> pushed]
             ELSE InValues(tokens, p + 1, pushed)

\* one pass of the body "Parse Single condition" of parseWhere at token i:
\* what it pushes, how many tokens it consumes, and whether it throws or breaks
SingleCondition(tokens, i, simpleConditions) ==
    LET key == At(tokens, i)
        rawOp == ToUpperCase(At(tokens, i + 1))
        op0 == IF rawOp = "SEPERTI" THEN "LIKE" ELSE rawOp
        op == IF op0 = "ANTARA" THEN "BETWEEN" ELSE op0
        Step(kind, conds, consumed) == [kind |-> kind, conds |-> conds, i |-> i + consumed]
        \* the first chain: BETWEEN, IS, IN
        first ==
            IF op = "BETWEEN" THEN
                LET pushed == Append(simpleConditions,
                                  Cond(key, "BETWEEN",
                                       ArrayVal(<<NormalizeValue(At(tokens, i + 2)),
                                                  NormalizeValue(At(tokens, i + 4))>>)))
                    connector == ToUpperCase(At(tokens, i + 3))
                IN  IF At(tokens, i + 3) = Undefined THEN Step("throw", pushed, 0)
                    ELSE IF connector \notin {"AND", "DAN"} THEN Step("throw", pushed, 0)
                    ELSE Step("next", pushed, 5)
            ELSE IF op = "IS" THEN
                LET next == ToUpperCase(At(tokens, i + 2))
                    next2 == ToUpperCase(At(tokens, i + 3))
                IN  IF At(tokens, i + 2) = Undefined THEN Step("throw", simpleConditions, 0)
                    ELSE IF next \in {"NULL", "KOSONG"}
                    THEN Step("next", Append(simpleConditions, Cond(key, "IS NULL", NullVal)), 3)
                    ELSE IF next \in {"NOT", "TIDAK"} THEN
                        IF At(tokens, i + 3) = Undefined THEN Step("throw", simpleConditions, 0)
                        ELSE IF next2 \in {"NULL", "KOSONG"}
                        THEN Step("next",
                                  Append(simpleConditions, Cond(key, "IS NOT NULL", NullVal)), 4)
                        ELSE Step("throw", simpleConditions, 0)
                    ELSE Step("throw", simpleConditions, 0)
            ELSE Step("next", simpleConditions, 2)
        isNot == op \in {"NOT", "TIDAK"}
        \* the second chain: IN and NOT IN, else "Normal Ops"
        second ==
            IF op \in {"IN", "DALAM", "NOT", "TIDAK"} THEN
                IF isNot /\ At(tokens, i + 2) = Undefined THEN Step("throw", first.conds, 0)
                ELSE IF isNot /\ ToUpperCase(At(tokens, i + 2)) \notin {"IN", "DALAM"}
                THEN Step("break", first.conds, 0)
                ELSE
                    LET p == IF isNot THEN i + 3 ELSE i + 2
                        finalOp == IF isNot THEN "NOT IN" ELSE "IN"
                        list == InValues(tokens, p + 1, <<>>)
                    IN  IF At(tokens, p) = "(" THEN
                            IF list.thrown THEN Step("throw", first.conds, 0)
                            ELSE Step("next",
                                      Append(first.conds,
                                             Cond(key, finalOp, ArrayVal(list.values))),
                                      (list.p - i) + 1)
                        ELSE Step("next", Append(first.conds, Cond(key, finalOp, NullVal)),
                                  IF isNot THEN 3 ELSE 2)
            ELSE Step("next",
                      Append(first.conds, Cond(key, op, NormalizeValue(At(tokens, i + 2)))),
                      3)
    IN  IF first.kind = "throw" THEN first ELSE second

\* the while loop of parseWhere: the conditions and connectors in the order written
RECURSIVE SimpleConditions(_, _, _)

\* the loop after one condition: a syntax error leaves it by the exception, an
\* unknown word after NOT by the break
NextCondition(tokens, step) ==
    IF step.kind = "throw" THEN [thrown |-> TRUE, conds |-> step.conds]
    ELSE IF step.kind = "break" THEN [thrown |-> FALSE, conds |-> step.conds]
    ELSE SimpleConditions(tokens, step.i, step.conds)

SimpleConditions(tokens, i, simpleConditions) ==
    IF i >= Len(tokens) THEN [thrown |-> FALSE, conds |-> simpleConditions]
    ELSE LET upper == ToUpperCase(At(tokens, i))
         IN  IF upper \in LogicTokens THEN
                 SimpleConditions(tokens, i + 1,
                     Append(simpleConditions,
                            Logic(IF upper = "DAN" THEN "AND"
                                  ELSE IF upper = "ATAU" THEN "OR" ELSE upper)))
             ELSE IF upper \in WhereBreakTokens
             THEN [thrown |-> FALSE, conds |-> simpleConditions]
             ELSE IF i < Len(tokens) - 1
             THEN NextCondition(tokens, SingleCondition(tokens, i, simpleConditions))
             ELSE [thrown |-> FALSE, conds |-> simpleConditions]

\* simpleConditions[k] of the code (0-based)
NodeAt(simpleConditions, k) ==
    IF k < Len(simpleConditions) THEN simpleConditions[k + 1] ELSE UndefinedNode

\* pass 1 of the tree building: runs of AND become one compound node; reading
\* current.type of a missing node throws
RECURSIVE CombineAnds(_, _, _, _)
CombineAnds(simpleConditions, k, current, pass1) ==
    IF k >= Len(simpleConditions) THEN [thrown |-> FALSE, pass1 |-> Append(pass1, current)]
    ELSE LET logic == NodeAt(simpleConditions, k)
             nextCond == NodeAt(simpleConditions, k + 1)
         IN  IF logic.op = "AND" THEN
                 IF current.type = "undefined" THEN [thrown |-> TRUE, pass1 |-> pass1]
                 ELSE IF current.type = "compound" /\ current.logic = "AND"
                 THEN CombineAnds(simpleConditions, k + 2,
                                  Compound("AND", Append(current.conditions, nextCond)), pass1)
                 ELSE CombineAnds(simpleConditions, k + 2,
                                  Compound("AND", <<current, nextCond>>), pass1)
             ELSE CombineAnds(simpleConditions, k + 2, nextCond,
                              Append(Append(pass1, current), logic))

\* a pass 2 that puts the groups under an AND node
CombineUnderAnd(pass1) ==
    IF Len(pass1) = 1 THEN pass1[1]
    ELSE Compound("AND", [j \in 1 .. (Len(pass1) + 1) \div 2 |-> pass1[2 * j - 1]])

\* pass 2: every second element of pass1 under one OR node
CombineOrs(pass1) ==
    IF Len(pass1) = 1 THEN pass1[1]
    ELSE Compound("OR", [j \in 1 .. (Len(pass1) + 1) \div 2 |-> pass1[2 * j - 1]])

ParseWhere(tokens, startIndex) ==
    LET Pass2(pass1) == IF pass1.thrown THEN TypeError ELSE CombineOrs(pass1.pass1)
        Pass1(linear) ==
            IF linear.thrown THEN Throw("Syntax: WHERE")
            ELSE IF Len(linear.conds) = 0 THEN NullCriteria
            ELSE Pass2(CombineAnds(linear.conds, 1, linear.conds[1], <<>>))
    IN  Pass1(SimpleConditions(tokens, startIndex, <<>>))

\* the toUpperCase of a token that may be missing: reading it throws a TypeError,
\* which the callers test with Missing before they compare
Missing(tokens, i) == At(tokens, i) = Undefined
Upper(tokens, i) == ToUpperCase(At(tokens, i))

ParseCreate(tokens) ==
    IF Upper(tokens, 0) = "CREATE" THEN
        IF Missing(tokens, 1) THEN TypeError
        ELSE IF Upper(tokens, 1) # "TABLE" THEN Throw("Syntax: CREATE TABLE [name]")
        ELSE [type |-> "CREATE_TABLE", table |-> At(tokens, 2)]
    ELSE IF Len(tokens) < 2 THEN Throw("Syntax: LAHAN [nama_kebun]")
    ELSE [type |-> "CREATE_TABLE", table |-> At(tokens, 1)]

ParseDrop(tokens) ==
    IF Upper(tokens, 0) = "DROP" /\ ~Missing(tokens, 1) /\ Upper(tokens, 1) = "TABLE"
    THEN [type |-> "DROP_TABLE", table |-> At(tokens, 2)]
    ELSE IF Upper(tokens, 0) = "BAKAR" /\ ~Missing(tokens, 1) /\ Upper(tokens, 1) = "LAHAN"
    THEN [type |-> "DROP_TABLE", table |-> At(tokens, 2)]
    ELSE Throw("Syntax: BAKAR LAHAN [nama] | DROP TABLE [nama]")

\* the column list of parseInsert from token i up to ')'
RECURSIVE InsertCols(_, _, _)
InsertCols(tokens, i, cols) ==
    IF At(tokens, i) = ")" THEN [thrown |-> FALSE, i |-> i, list |-> cols]
    ELSE IF i + 1 >= Len(tokens) THEN [thrown |-> TRUE, i |-> i, list |-> cols]
    ELSE InsertCols(tokens, i + 1, IF At(tokens, i) # "," THEN Append(cols, At(tokens, i)) ELSE cols)

\* a value of the VALUES list: quoted text, NULL, TRUE, FALSE, a number, or the lexeme
InsertValue(val) ==
    IF val \in DOMAIN Quoted THEN Val("string", Quoted[val])
    ELSE IF ToUpperCase(val) = "NULL" THEN NullVal
    ELSE IF ToUpperCase(val) = "TRUE" THEN Val("boolean", "true")
    ELSE IF ToUpperCase(val) = "FALSE" THEN Val("boolean", "false")
    ELSE IF val \in DOMAIN Numerals THEN Val("number", Numerals[val])
    ELSE Val("string", val)

\* the value list of parseInsert: val.startsWith throws past the end of the tokens
RECURSIVE InsertVals(_, _, _)
InsertVals(tokens, i, vals) ==
    IF At(tokens, i) = ")" THEN [thrown |-> FALSE, i |-> i, list |-> vals]
    ELSE IF Missing(tokens, i) THEN [thrown |-> TRUE, i |-> i, list |-> vals]
    ELSE InsertVals(tokens, i + 1,
                    IF At(tokens, i) # "," THEN Append(vals, InsertValue(At(tokens, i)))
                    ELSE vals)

\* data[cols[k]] = vals[k] for k in order: a later column of the same name wins
RECURSIVE ObjectOf(_, _, _)
ObjectOf(cols, vals, k) ==
    IF k = 0 THEN <<>>
    ELSE (cols[k] :> vals[k]) @@ ObjectOf(cols, vals, k - 1)

ParseInsert(tokens) ==
    LET cols == InsertCols(tokens, 4, <<>>)
        afterCols == cols.i + 1
        vals == InsertVals(tokens, afterCols + 2, <<>>)
    IN  IF Missing(tokens, 1) THEN TypeError
        ELSE IF Upper(tokens, 0) = "INSERT" /\ Upper(tokens, 1) # "INTO"
        THEN Throw("Syntax: INSERT INTO [table] ...")
        ELSE IF Upper(tokens, 0) # "INSERT" /\ Upper(tokens, 1) # "KE"
        THEN Throw("Syntax: TANAM KE [kebun] ...")
        ELSE IF At(tokens, 3) # "(" THEN Throw("Syntax: ... [table] (col1, ...) ...")
        ELSE IF cols.thrown THEN Throw("Unclosed parenthesis in columns")
        ELSE IF Missing(tokens, afterCols) THEN TypeError
        ELSE IF Upper(tokens, afterCols) \notin {"BIBIT", "VALUES"}
        THEN Throw("Expected BIBIT or VALUES")
        ELSE IF At(tokens, afterCols + 1) # "(" THEN Throw("Syntax: ... VALUES (val1, ...)")
        ELSE IF vals.thrown THEN TypeError
        ELSE IF Len(cols.list) # Len(vals.list) THEN Throw("Columns and Values count mismatch")
        ELSE [type |-> "INSERT", table |-> At(tokens, 2),
              data |-> ObjectOf(cols.list, vals.list, Len(cols.list))]

\* the optional WHERE of a statement: tokens[i] is DIMANA or WHERE
HasWhere(tokens, i) == i < Len(tokens) /\ Upper(tokens, i) \in {"DIMANA", "WHERE"}

WhereAt(tokens, i) == IF HasWhere(tokens, i) THEN ParseWhere(tokens, i + 1) ELSE NullCriteria

ParseDelete(tokens) ==
    IF Missing(tokens, 1) THEN TypeError
    ELSE IF Upper(tokens, 0) = "DELETE" /\ Upper(tokens, 1) # "FROM"
    THEN Throw("Syntax: DELETE FROM [table] ...")
    ELSE IF Upper(tokens, 0) # "DELETE" /\ Upper(tokens, 1) # "DARI"
    THEN Throw("Syntax: GUSUR DARI [kebun] ...")
    ELSE LET Delete(criteria) ==
                 IF IsThrow(criteria) THEN criteria
                 ELSE [type |-> "DELETE", table |-> At(tokens, 2), criteria |-> criteria]
         IN  Delete(WhereAt(tokens, 3))

\* the assignment list of parseUpdate up to DIMANA or WHERE
RECURSIVE UpdateList(_, _, _)
UpdateList(tokens, i, updates) ==
    IF ~(i < Len(tokens) /\ Upper(tokens, i) \notin {"DIMANA", "WHERE"})
    THEN [thrown |-> FALSE, i |-> i, updates |-> updates]
    ELSE IF At(tokens, i) = "," THEN UpdateList(tokens, i + 1, updates)
    ELSE IF At(tokens, i + 1) # "=" THEN [thrown |-> TRUE, i |-> i, updates |-> updates]
    ELSE IF Missing(tokens, i + 2) THEN [thrown |-> TRUE, i |-> i, updates |-> updates]
    ELSE UpdateList(tokens, i + 3, (At(tokens, i) :> NormalizeValue(At(tokens, i + 2))) @@ updates)

ParseUpdate(tokens) ==
    LET Update(list, criteria) ==
            IF Upper(tokens, 0) = "UPDATE" /\ Missing(tokens, 2) THEN TypeError
            ELSE IF Upper(tokens, 0) = "UPDATE" /\ Upper(tokens, 2) # "SET"
            THEN Throw("Expected SET")
            ELSE IF Upper(tokens, 0) # "UPDATE" /\ Len(tokens) < 3
            THEN Throw("Syntax: PUPUK [kebun] DENGAN ...")
            ELSE IF Upper(tokens, 0) # "UPDATE" /\ Upper(tokens, 2) # "DENGAN"
            THEN Throw("Expected DENGAN")
            ELSE IF list.thrown THEN Throw("Syntax: key=value in update list")
            ELSE IF IsThrow(criteria) THEN criteria
            ELSE [type |-> "UPDATE", table |-> At(tokens, 1), updates |-> list.updates,
                  criteria |-> criteria]
        Where(list) == Update(list, WhereAt(tokens, list.i))
    IN  Where(UpdateList(tokens, 3, <<>>))

ParseCreateIndex(tokens) ==
    IF Upper(tokens, 0) = "CREATE" /\ ~Missing(tokens, 1) /\ Upper(tokens, 1) = "INDEX" THEN
        IF Missing(tokens, 2) THEN TypeError
        ELSE LET i == IF Upper(tokens, 2) # "ON" /\ ~Missing(tokens, 3)
                         /\ Upper(tokens, 3) = "ON"
                      THEN 3 ELSE 2
             IN  IF Upper(tokens, i) # "ON" THEN Throw("Syntax: CREATE INDEX ... ON [table] ...")
                 ELSE IF At(tokens, i + 2) # "(" THEN Throw("Syntax: ... ON [table] ( [field] )")
                 ELSE IF At(tokens, i + 4) # ")"
                 THEN Throw("Unclosed parenthesis for index field")
                 ELSE [type |-> "CREATE_INDEX", table |-> At(tokens, i + 1),
                       field |-> At(tokens, i + 3)]
    ELSE IF Upper(tokens, 0) = "CREATE" /\ Missing(tokens, 1) THEN TypeError
    ELSE IF Len(tokens) < 4 THEN Throw("Syntax: INDEKS [table] PADA [field]")
    ELSE IF Upper(tokens, 2) # "PADA" THEN Throw("Expected PADA")
    ELSE [type |-> "CREATE_INDEX", table |-> At(tokens, 1), field |-> At(tokens, 3)]

\* the column list of parseSelect from token i up to DARI or FROM
RECURSIVE SelectCols(_, _, _)
SelectCols(tokens, i, cols) ==
    IF i < Len(tokens) /\ Upper(tokens, i) \notin {"DARI", "FROM"}
    THEN SelectCols(tokens, i + 1, IF At(tokens, i) # "," THEN Append(cols, At(tokens, i)) ELSE cols)
    ELSE [i |-> i, list |-> cols]

\* "Move i past the WHERE clause"
RECURSIVE PastWhere(_, _)
PastWhere(tokens, i) ==
    IF i < Len(tokens)
       /\ Upper(tokens, i) \notin {"ORDER", "URUTKAN", "LIMIT", "HANYA", "OFFSET", "MULAI"}
    THEN PastWhere(tokens, i + 1)
    ELSE i

\* parseInt(token, 10)
ParseInt(token) ==
    IF token \in DOMAIN Numerals THEN Val("number", Numerals[token]) ELSE Val("number", "NaN")

\* ORDER BY / URUTKAN BERDASARKAN of parseSelect at token i
SelectSort(tokens, i) ==
    LET token == Upper(tokens, i)
        keyword == i < Len(tokens) /\ token \in {"ORDER", "URUTKAN"}
        by == IF token = "ORDER" THEN "BY" ELSE "BERDASARKAN"
        j == IF keyword /\ Upper(tokens, i + 1) = by THEN i + 2
             ELSE IF keyword THEN i + 1 ELSE i
        sorted == j < Len(tokens) /\ Upper(tokens, j - 1) \in {"BY", "BERDASARKAN"}
        hasDir == j + 1 < Len(tokens) /\ Upper(tokens, j + 1) \in {"ASC", "DESC", "NAIK", "TURUN"}
    IN  IF keyword /\ Missing(tokens, i + 1) THEN [thrown |-> TRUE, i |-> i, sort |-> NullCriteria]
        ELSE IF ~sorted THEN [thrown |-> FALSE, i |-> j, sort |-> NullCriteria]
        ELSE [thrown |-> FALSE,
              i |-> IF hasDir THEN j + 2 ELSE j + 1,
              sort |-> [key |-> At(tokens, j),
                        dir |-> IF hasDir /\ Upper(tokens, j + 1) \in {"DESC", "TURUN"}
                                THEN "desc" ELSE "asc"]]

\* LIMIT / HANYA and OFFSET / LANGKAHI / MULAI DARI of parseSelect at token i
SelectLimit(tokens, i) ==
    LET limited == i < Len(tokens) /\ Upper(tokens, i) \in {"LIMIT", "HANYA"}
        j == IF limited THEN i + 2 ELSE i
        token == Upper(tokens, j)
        k == IF token = "MULAI" /\ ~Missing(tokens, j + 1) /\ Upper(tokens, j + 1) = "DARI"
             THEN j + 2 ELSE j + 1
    IN  [limit |-> IF limited THEN ParseInt(At(tokens, i + 1)) ELSE NullVal,
         offset |-> IF j < Len(tokens) /\ token \in {"OFFSET", "LANGKAHI", "MULAI"}
                    THEN ParseInt(At(tokens, k)) ELSE NullVal]

\* parseSelect of a statement without JOIN clause: the JOIN loop leaves at its
\* first token, which is no join keyword
ParseSelect(tokens) ==
    LET distinct == ~Missing(tokens, 1) /\ Upper(tokens, 1) = "DISTINCT"
        Select(cols, criteria, sort) ==
            IF cols.i >= Len(tokens) THEN Throw("Expected DARI or FROM")
            ELSE IF IsThrow(criteria) THEN criteria
            ELSE IF sort.thrown THEN TypeError
            ELSE [type |-> "SELECT", table |-> At(tokens, cols.i + 1), cols |-> cols.list,
                  joins |-> <<>>, criteria |-> criteria, sort |-> sort.sort,
                  limit |-> SelectLimit(tokens, sort.i).limit,
                  offset |-> SelectLimit(tokens, sort.i).offset, distinct |-> distinct]
        From(cols) ==
            Select(cols, WhereAt(tokens, cols.i + 2),
                   SelectSort(tokens,
                              IF HasWhere(tokens, cols.i + 2)
                              THEN PastWhere(tokens, cols.i + 3)
                              ELSE cols.i + 2))
    IN  From(SelectCols(tokens, IF distinct THEN 2 ELSE 1, <<>>))

ParseBeginTransaction(tokens) ==
    IF Upper(tokens, 0) = "MULAI" THEN
        IF ~Missing(tokens, 1) /\ Upper(tokens, 1) = "AKAD"
        THEN [type |-> "BEGIN_TRANSACTION"]
        ELSE Throw("Syntax: MULAI AKAD")
    ELSE [type |-> "BEGIN_TRANSACTION"]

ParseCreateView(tokens) ==
    LET View(selectCommand) ==
            IF Missing(tokens, 2) THEN Throw("View name required")
            ELSE IF Missing(tokens, 3) THEN TypeError
            ELSE IF Upper(tokens, 3) # "SEBAGAI" THEN Throw("Expected SEBAGAI after view name")
            ELSE IF IsThrow(selectCommand) THEN selectCommand
            ELSE [type |-> "CREATE_VIEW", viewName |-> At(tokens, 2),
                  selectCommand |-> selectCommand]
    IN  View(ParseSelect(Slice(tokens, 4)))

\* the action of a trigger is the text of the tokens after LAKUKAN
ParseCreateTrigger(tokens) ==
    IF Missing(tokens, 2) THEN Throw("Trigger name required")
    ELSE IF Missing(tokens, 3) THEN TypeError
    ELSE IF Upper(tokens, 3) # "PADA" THEN Throw("Expected PADA after trigger name")
    ELSE IF Missing(tokens, 7) THEN TypeError
    ELSE IF Upper(tokens, 7) # "LAKUKAN" THEN Throw("Expected LAKUKAN before action query")
    ELSE [type |-> "CREATE_TRIGGER", name |-> At(tokens, 2), timing |-> At(tokens, 4),
          event |-> At(tokens, 5), table |-> At(tokens, 6), action |-> Slice(tokens, 8)]

ParseCreateViewOrTrigger(tokens) ==
    IF Missing(tokens, 1) THEN TypeError
    ELSE IF Upper(tokens, 1) = "TEROPONG" THEN ParseCreateView(tokens)
    ELSE IF Upper(tokens, 1) = "KENTONGAN" THEN ParseCreateTrigger(tokens)
    ELSE Throw("Syntax: PASANG TEROPONG [nama] ... or PASANG KENTONGAN [nama] ...")

ParseDropViewOrTrigger(tokens) ==
    IF Missing(tokens, 1) THEN TypeError
    ELSE IF Upper(tokens, 1) = "TEROPONG" THEN
        IF Missing(tokens, 2) THEN Throw("View name required")
        ELSE [type |-> "DROP_VIEW", viewName |-> At(tokens, 2)]
    ELSE IF Upper(tokens, 1) = "KENTONGAN" THEN
        IF Missing(tokens, 2) THEN Throw("Trigger name required")
        ELSE [type |-> "DROP_TRIGGER", name |-> At(tokens, 2)]
    ELSE Throw("Syntax: BUANG TEROPONG [nama] or BUANG KENTONGAN [nama]")

\* the modifiers of one field of parseSchemaDefinition from token i: WAJIB / REQUIRED
\* and DEFAULT / BAWAAN with its value; defaultValue.startsWith throws past the end
RECURSIVE SchemaModifiers(_, _, _, _)
SchemaModifiers(tokens, i, required, default) ==
    IF ~(i < Len(tokens) /\ At(tokens, i) \notin {",", ")"})
    THEN [thrown |-> FALSE, i |-> i, required |-> required, default |-> default]
    ELSE IF Upper(tokens, i) \in {"WAJIB", "REQUIRED"}
    THEN SchemaModifiers(tokens, i + 1, TRUE, default)
    ELSE IF Upper(tokens, i) \in {"DEFAULT", "BAWAAN"} THEN
        IF Missing(tokens, i + 1)
        THEN [thrown |-> TRUE, i |-> i, required |-> required, default |-> default]
        ELSE SchemaModifiers(tokens, i + 2, required, NormalizeValue(At(tokens, i + 1)))
    ELSE [thrown |-> FALSE, i |-> i, required |-> required, default |-> default]

\* the loop "while (tokens[i] !== ')')" of parseSchemaDefinition: past the end of
\* the tokens every tokens[i] is undefined, nothing throws and i only grows
RECURSIVE SchemaFields(_, _, _)
SchemaFields(tokens, i, schema) ==
    IF At(tokens, i) = ")" THEN [type |-> "fields", schema |-> schema]
    ELSE IF i >= Len(tokens) THEN Diverges
    ELSE LET mods == SchemaModifiers(tokens, i + 2, FALSE, UndefinedVal)
             config == [type |-> At(tokens, i + 1), required |-> mods.required,
                        default |-> mods.default]
         IN  IF mods.thrown THEN TypeError
             ELSE SchemaFields(tokens,
                               IF At(tokens, mods.i) = "," THEN mods.i + 1 ELSE mods.i,
                               (At(tokens, i) :> config) @@ schema)

ParseSchemaDefinition(tokens) ==
    LET fields == SchemaFields(tokens, 4, <<>>)
    IN  IF Missing(tokens, 1) THEN TypeError
        ELSE IF Upper(tokens, 1) # "LAHAN" THEN Throw("Expected LAHAN after SERTIFIKASI")
        ELSE IF Missing(tokens, 2) THEN Throw("Table name required")
        ELSE IF At(tokens, 3) # "(" THEN Throw("Expected ( after table name")
        ELSE IF fields.type # "fields" THEN fields
        ELSE [type |-> "DEFINE_SCHEMA", table |-> At(tokens, 2), schema |-> fields.schema]

\* the parameter list of parseStoredProcedure: the loop looks for ")" and never
\* looks at the length of the tokens, so without one it pushes undefined for ever
RECURSIVE ProcedureParams(_, _, _)
ProcedureParams(tokens, i, params) ==
    IF At(tokens, i) = ")" THEN [diverges |-> FALSE, i |-> i + 1, list |-> params]
    ELSE IF Missing(tokens, i) THEN [diverges |-> TRUE, i |-> i, list |-> params]
    ELSE ProcedureParams(tokens, i + 1,
                         IF At(tokens, i) # "," THEN Append(params, At(tokens, i))
                         ELSE params)

\* SIMPAN SOP name (@p1, @p2) SEBAGAI statement: the body is the rest of the
\* tokens joined by blanks, which tokenize() reads back as the same tokens
ParseStoredProcedure(tokens) ==
    LET Procedure(parsed) ==
            IF parsed.diverges THEN Diverges
            ELSE IF Missing(tokens, parsed.i) THEN TypeError
            ELSE IF Upper(tokens, parsed.i) # "SEBAGAI"
            THEN Throw("Expected SEBAGAI after parameters")
            ELSE [type |-> "CREATE_PROCEDURE", name |-> At(tokens, 2),
                  params |-> parsed.list,
                  body |-> SubSeq(tokens, parsed.i + 2, Len(tokens))]
    IN  IF Missing(tokens, 1) THEN TypeError
        ELSE IF Upper(tokens, 1) # "SOP"
        THEN Throw("Syntax: SIMPAN SOP [nama] (...) SEBAGAI [query]")
        ELSE IF Missing(tokens, 2) THEN Throw("Procedure name required")
        ELSE Procedure(IF At(tokens, 3) = "("
                       THEN ProcedureParams(tokens, 4, <<>>)
                       ELSE [diverges |-> FALSE, i |-> 3, list |-> <<>>])

\* an argument of JALANKAN SOP: a quoted string without its quotes, a number,
\* or the token itself
ArgumentValue(val) ==
    IF val \in DOMAIN Quoted THEN Val("string", Quoted[val])
    ELSE IF val \in DOMAIN Numerals THEN Val("number", Numerals[val])
    ELSE Val("string", val)

\* the argument list of parseExecuteProcedure: val.startsWith throws past the
\* end of the tokens
RECURSIVE ProcedureArgs(_, _, _)
ProcedureArgs(tokens, i, args) ==
    IF At(tokens, i) = ")" THEN [thrown |-> FALSE, list |-> args]
    ELSE IF Missing(tokens, i) THEN [thrown |-> TRUE, list |-> args]
    ELSE ProcedureArgs(tokens, i + 1,
                       IF At(tokens, i) # "," THEN Append(args, ArgumentValue(At(tokens, i)))
                       ELSE args)

\* JALANKAN SOP name (value1, value2)
ParseExecuteProcedure(tokens) ==
    LET Call(parsed) ==
            IF parsed.thrown THEN TypeError
            ELSE [type |-> "EXECUTE_PROCEDURE", name |-> At(tokens, 2), args |-> parsed.list]
    IN  IF Missing(tokens, 1) THEN TypeError
        ELSE IF Upper(tokens, 1) # "SOP" THEN Throw("Syntax: JALANKAN SOP [nama] (...)")
        ELSE IF Missing(tokens, 2) THEN Throw("Procedure name required")
        ELSE Call(IF At(tokens, 3) = "("
                  THEN ProcedureArgs(tokens, 4, <<>>)
                  ELSE [thrown |-> FALSE, list |-> <<>>])

\* params of a query: none, or the values bound to the names
NoParams == [none |-> TRUE]
ParamNames == ("@v" :> "v") @@ ("@w" :> "w")

\* bindValue of _bindParameters: a string that starts with '@' and names a bound
\* parameter is replaced by the parameter's value
BindValue(val, params) ==
    IF val.kind = "string" /\ val.text \in DOMAIN ParamNames
       /\ ParamNames[val.text] \in DOMAIN params
    THEN params[ParamNames[val.text]]
    ELSE val

\* _info_bindCriteria
RECURSIVE BindCriteria(_, _)
BindCriteria(criteria, params) ==
    IF criteria.type = "compound"
    THEN [criteria EXCEPT !.conditions =
              [j \in DOMAIN criteria.conditions |-> BindCriteria(criteria.conditions[j], params)]]
    ELSE IF criteria.type # "cond" THEN criteria
    ELSE IF criteria.val.kind = "array"
    THEN [criteria EXCEPT !.val =
              ArrayVal([j \in DOMAIN criteria.val.items |-> BindValue(criteria.val.items[j], params)])]
    ELSE [criteria EXCEPT !.val = BindValue(criteria.val, params)]

\* reading cond.type of a missing condition of a compound node throws
RECURSIVE BindThrows(_)
BindThrows(criteria) ==
    \/ criteria.type = "undefined"
    \/ /\ criteria.type = "compound"
       /\ \E j \in DOMAIN criteria.conditions : BindThrows(criteria.conditions[j])

HasCriteria(command) == "criteria" \in DOMAIN command /\ command.criteria.type # "null"

\* _bindParameters: criteria, insert data and update values
BindParameters(command, params) ==
    LET c1 == IF HasCriteria(command)
              THEN [command EXCEPT !.criteria = BindCriteria(command.criteria, params)]
              ELSE command
        c2 == IF "data" \in DOMAIN command
              THEN [c1 EXCEPT !.data = [k \in DOMAIN command.data |-> BindValue(command.data[k], params)]]
              ELSE c1
    IN  IF HasCriteria(command) /\ BindThrows(command.criteria) THEN TypeError
        ELSE IF "updates" \in DOMAIN command
        THEN [c2 EXCEPT !.updates =
                  [k \in DOMAIN command.updates |-> BindValue(command.updates[k], params)]]
        ELSE c2

\* the switch of parse on the first keyword.  Statements that begin with LIHAT,
\* SHOW, HITUNG, EXPLAIN, JELASKAN, CADANGKAN or PULIHKAN are not among the
\* statements of this model.
ParseCommand(tokens) ==
    LET cmd == Upper(tokens, 0)
    IN  CASE cmd \in {"LAHAN", "CREATE"} ->
                 IF ~Missing(tokens, 1) /\ Upper(tokens, 1) = "INDEX"
                 THEN ParseCreateIndex(tokens)
                 ELSE ParseCreate(tokens)
          [] cmd \in {"TANAM", "INSERT"} -> ParseInsert(tokens)
          [] cmd \in {"PANEN", "SELECT"} -> ParseSelect(tokens)
          [] cmd \in {"GUSUR", "DELETE"} -> ParseDelete(tokens)
          [] cmd \in {"PUPUK", "UPDATE"} -> ParseUpdate(tokens)
          [] cmd \in {"BAKAR", "DROP"} -> ParseDrop(tokens)
          [] cmd = "INDEKS" -> ParseCreateIndex(tokens)
          [] cmd = "MULAI" -> ParseBeginTransaction(tokens)
          [] cmd = "BEGIN" -> [type |-> "BEGIN_TRANSACTION"]
          [] cmd \in {"SAHKAN", "COMMIT"} -> [type |-> "COMMIT"]
          [] cmd \in {"BATALKAN", "ROLLBACK"} -> [type |-> "ROLLBACK"]
          [] cmd = "PASANG" -> ParseCreateViewOrTrigger(tokens)
          [] cmd = "BUANG" -> ParseDropViewOrTrigger(tokens)
          [] cmd = "SERTIFIKASI" -> ParseSchemaDefinition(tokens)
          [] cmd = "SIMPAN" -> ParseStoredProcedure(tokens)
          [] cmd = "JALANKAN" -> ParseExecuteProcedure(tokens)
          [] OTHER -> Throw("Perintah tidak dikenal")

\* QueryParser.parse: what the call returns, or Diverges when it does not return
Parse(queryString, params) ==
    LET Caught(command, bound) ==
            IF Len(queryString) = 0 THEN [type |-> "EMPTY"]
            ELSE IF command.type = "DIVERGES" THEN Diverges
            ELSE IF IsThrow(command) THEN [type |-> "ERROR", message |-> command.message]
            ELSE IF IsThrow(bound) THEN [type |-> "ERROR", message |-> bound.message]
            ELSE bound
        Bound(command) ==
            Caught(command,
                   IF params # NoParams THEN BindParameters(command, params) ELSE command)
    IN  Bound(ParseCommand(queryString))

\* ConditionEvaluator: a comparison against the row's field, AND nodes hold when
\* every condition holds, OR nodes when some condition holds
RECURSIVE CheckMatch(_, _)
CheckMatch(row, criteria) ==
    IF criteria.type = "compound" THEN
        IF criteria.logic = "AND"
        THEN \A j \in DOMAIN criteria.conditions : CheckMatch(row, criteria.conditions[j])
        ELSE \E j \in DOMAIN criteria.conditions : CheckMatch(row, criteria.conditions[j])
    ELSE IF criteria.op = "=" THEN row[criteria.key] = criteria.val
    ELSE row[criteria.key] # criteria.val

\* ---- the statements given to the parser ----
\* the longest flat WHERE clause, in comparisons
MaxConds == 3

Comparisons == {<<"a", "=", "1">>, <<"b", "=", "'x'">>, <<"a", "!=", "1.0">>}
Connectors == {"AND", "OR", "DAN", "ATAU"}

\* c1 l1 c2 .. cn as tokens
RECURSIVE ClauseTokens(_, _, _)
ClauseTokens(cs, ls, n) ==
    IF n = 1 THEN cs[1]
    ELSE ClauseTokens(cs, ls, n - 1) \o <<ls[n - 1]>> \o cs[n]

ClausesOf(comparisons, n) ==
    {ClauseTokens(cs, ls, n) : cs \in [1 .. n -> comparisons], ls \in [1 .. n - 1 -> Connectors]}

FlatClauses == UNION {ClausesOf(Comparisons, n) : n \in 1 .. MaxConds}

WhereHeads == {<<"DELETE", "FROM", "t", "WHERE">>, <<"GUSUR", "DARI", "t", "DIMANA">>}

FlatWhereStatements == {head \o clause : head \in WhereHeads, clause \in FlatClauses}

\* the comparisons with an operator of their own
OperatorComparisons ==
    {<<"a", "BETWEEN", "1", "AND", "2">>, <<"a", "ANTARA", "1", "DAN", "2">>,
     <<"a", "IS", "NULL">>, <<"b", "IS", "NOT", "NULL">>,
     <<"a", "IN", "(", "1", ",", "2", ")">>, <<"b", "NOT", "IN", "(", "'x'", ")">>}

OperatorClauses == UNION {ClausesOf(OperatorComparisons \cup {<<"b", "=", "'x'">>}, n) : n \in 1 .. 2}

OperatorWhereStatements == {head \o clause : head \in WhereHeads, clause \in OperatorClauses}

\* the statement forms of README "Dual Syntax Support", AQL form first
DualSyntax ==
    { << <<"LAHAN", "t">>, <<"CREATE", "TABLE", "t">> >>,
      << <<"TANAM", "KE", "t", "(", "a", ",", "b", ")", "BIBIT", "(", "1", ",", "'x'", ")">>,
         <<"INSERT", "INTO", "t", "(", "a", ",", "b", ")", "VALUES", "(", "1", ",", "'x'", ")">> >>,
      << <<"PANEN", "*", "DARI", "t", "DIMANA", "a", "=", "1">>,
         <<"SELECT", "*", "FROM", "t", "WHERE", "a", "=", "1">> >>,
      << <<"PUPUK", "t", "DENGAN", "a", "=", "2", "DIMANA", "b", "=", "'x'">>,
         <<"UPDATE", "t", "SET", "a", "=", "2", "WHERE", "b", "=", "'x'">> >>,
      << <<"GUSUR", "DARI", "t", "DIMANA", "a", "=", "1">>,
         <<"DELETE", "FROM", "t", "WHERE", "a", "=", "1">> >>,
      << <<"BAKAR", "LAHAN", "t">>, <<"DROP", "TABLE", "t">> >>,
      << <<"INDEKS", "t", "PADA", "a">>, <<"CREATE", "INDEX", "ix", "ON", "t", "(", "a", ")">> >>,
      << <<"MULAI", "AKAD">>, <<"BEGIN", "TRANSACTION">> >>,
      << <<"SAHKAN">>, <<"COMMIT">> >>,
      << <<"BATALKAN">>, <<"ROLLBACK">> >>,
      << <<"PASANG", "TEROPONG", "v", "SEBAGAI", "PANEN", "*", "DARI", "t">>,
         <<"CREATE", "VIEW", "v", "AS", "SELECT", "*", "FROM", "t">> >>,
      << <<"BUANG", "TEROPONG", "v">>, <<"DROP", "VIEW", "v">> >> }

DualStatements == {pair[1] : pair \in DualSyntax} \cup {pair[2] : pair \in DualSyntax}

\* statements of the dialect that have no English form in the table
OtherStatements ==
    { <<"SERTIFIKASI", "LAHAN", "t", "(", "a", "ANGKA", "WAJIB", ",", "b", "TEKS", "BAWAAN", "'x'", ")">>,
      <<"PASANG", "KENTONGAN", "x", "PADA", "AFTER", "INSERT", "t", "LAKUKAN", "GUSUR", "DARI", "t">>,
      <<"SIMPAN", "SOP", "p", "(", "@v", ",", "@w", ")", "SEBAGAI",
        "TANAM", "KE", "t", "(", "a", ")", "BIBIT", "(", "@v", ")">>,
      <<"JALANKAN", "SOP", "p", "(", "'x'", ",", "1", ")">> }

\* every statement cut after any number of tokens
Prefixes(statements) == UNION {{SubSeq(s, 1, n) : n \in 0 .. Len(s)} : s \in statements}

Statements ==
    FlatWhereStatements \cup OperatorWhereStatements
        \cup Prefixes(DualStatements \cup OtherStatements
                          \cup {head \o clause : head \in WhereHeads, clause \in OperatorComparisons})

NotParsed == [type |-> "NOT_PARSED"]

\* the caller of the parser: parse(queryString) returns command
CallParse ==
    /\ parserOutput = NotParsed
    /\ parserOutput' = Parse(parserInput, NoParams)
    /\ UNCHANGED parserInput

ParseAtRest == parserInput = <<>> /\ parserOutput = NotParsed

(***************************************************************************)
(* SawitDB.query: the query cache, and the two ways the server calls it    *)
(*                                                                         *)
(* A command object is its record together with the identities of the      *)
(* objects it is made of: the criteria object, the array it holds          *)
(* (conditions of a compound node, val of an IN or BETWEEN node), the      *)
(* data object of an INSERT and the updates object of an UPDATE.           *)
(***************************************************************************)
\* number of query() calls explored
MaxQueries == 3

\* SawitDB.queryCacheLimit
queryCacheLimit == 1000

QueryStrings ==
    { <<"INSERT", "INTO", "t", "(", "a", ")", "VALUES", "(", "@v", ")">>,
      <<"INSERT", "INTO", "t", "(", "a", ")", "VALUES", "(", "1", ")">>,
      <<"SELECT", "*", "FROM", "t", "WHERE", "a", "=", "@v">>,
      <<"UPDATE", "t", "SET", "a", "=", "@v", "WHERE", "b", "=", "'x'", "AND", "a", "IN", "(", "1", ")">>,
      <<"INSERT", "INTO", "t">> }

ParamSets == {NoParams, [v |-> Val("number", "2")]}

\* the object a parse creates when n objects exist
NewCommand(record, n) ==
    [record |-> record, criteria |-> n + 1, inner |-> n + 2, data |-> n + 3, updates |-> n + 4]

\* the objects of a command that executing or binding can write to
MutableObjects(cmd) ==
    (IF HasCriteria(cmd.record) THEN {cmd.criteria} ELSE {})
        \cup (IF HasCriteria(cmd.record)
                 /\ (cmd.record.criteria.type = "compound"
                        \/ cmd.record.criteria.val.kind = "array")
              THEN {cmd.inner} ELSE {})
        \cup (IF "data" \in DOMAIN cmd.record THEN {cmd.data} ELSE {})
        \cup (IF "updates" \in DOMAIN cmd.record THEN {cmd.updates} ELSE {})

\* _shallowCloneCmd: a new command object and a new criteria object with the
\* properties of the old ones: the array under the criteria, data and updates
\* are the objects of the cached command
ShallowCloneCmd(cmd, n) == [cmd EXCEPT !.criteria = n + 1]

CacheHas(cacheKey) == \E k \in DOMAIN queryCache : queryCache[k].key = cacheKey
CacheGet(cacheKey) == (CHOOSE k \in DOMAIN queryCache : queryCache[k].key = cacheKey)
CacheDelete(cacheKey) ==
    LET Other(entry) == entry.key # cacheKey IN SelectSeq(queryCache, Other)

\* queryCache.set followed by the eviction of the oldest keys over the limit
RECURSIVE Evicted(_)
Evicted(entries) == IF Len(entries) > queryCacheLimit THEN Evicted(Tail(entries)) ELSE entries

CacheSet(cacheKey, cmd) == Append(CacheDelete(cacheKey), [key |-> cacheKey, cmd |-> cmd])

\* SawitDB.query(queryString, params) up to the switch on cmd.type: the command
\* the switch executes, or the error string returned before it
Query2Command(queryString, params) ==
    LET hit == CacheHas(queryString) /\ params = NoParams
        cached == queryCache[CacheGet(queryString)].cmd
        Bound(templateCmd, bound) ==
            [hit |-> FALSE, executed |-> ~IsThrow(bound),
             cmd |-> [templateCmd EXCEPT !.record = bound],
             cache |-> queryCache, objects |-> nextObject + 4]
        Parsed(templateCmd) ==
            IF templateCmd.record.type = "ERROR"
            THEN [hit |-> FALSE, executed |-> FALSE, cmd |-> templateCmd,
                  cache |-> queryCache, objects |-> nextObject + 4]
            ELSE IF params = NoParams
            THEN [hit |-> FALSE, executed |-> TRUE, cmd |-> templateCmd,
                  cache |-> Evicted(CacheSet(queryString, templateCmd)),
                  objects |-> nextObject + 4]
            ELSE Bound(templateCmd, BindParameters(templateCmd.record, params))
    IN  IF hit
        THEN [hit |-> TRUE, executed |-> TRUE, cmd |-> ShallowCloneCmd(cached, nextObject),
              cache |-> CacheSet(queryString, cached), objects |-> nextObject + 1]
        ELSE Parsed(NewCommand(Parse(queryString, NoParams), nextObject))

\* one `query` request with payload {query, params} of a connection that has
\* selected a database: #handleQuery gives the statement to the pool, whose
\* task carries sql and config only and whose worker calls db.query(task.sql),
\* or calls db.query(query, params) on its own engine
HandleQueryRequest(query, params) ==
    LET Answer(call) ==
            /\ calls' = Append(calls, [query |-> query, params |-> params, hit |-> call.hit,
                                       executed |-> call.executed, cmd |-> call.cmd])
            /\ queryCache' = call.cache
            /\ nextObject' = call.objects
    IN  /\ Len(calls) < MaxQueries
        /\ Answer(Query2Command(query, IF viaPool THEN NoParams ELSE params))
        /\ UNCHANGED viaPool

QueryAtRest == queryCache = <<>> /\ nextObject = 0 /\ calls = <<>> /\ viaPool = FALSE

(***************************************************************************)
(* INSERT into a table with a schema and triggers                          *)
(*                                                                         *)
(* SchemaManager.validateData, TriggerManager.executeTriggers and the      *)
(* order in which InsertExecutor.insertMany calls them, for one table t.   *)
(* The rows are kept as the objects insertMany serialises; the pages they  *)
(* go to are the subject of SpecPages.                                     *)
(***************************************************************************)
\* number of INSERT statements explored
MaxInserts == 1
\* number of triggers created
MaxTriggers == 2

NoSchema == [none |-> TRUE]

SchemaStatements ==
    { <<"SERTIFIKASI", "LAHAN", "t", "(", "a", "ANGKA", "WAJIB", ",",
        "b", "BENAR_SALAH", "BAWAAN", "true", ")">>,
      <<"SERTIFIKASI", "LAHAN", "t", "(", "a", "NUMBER", ",", "b", "TEKS", "BAWAAN", "'x'", ")">>,
      <<"SERTIFIKASI", "LAHAN", "t", "(", "a", "ANGKA", "REQUIRED", "DEFAULT", "0", ",",
        "b", "STRING", ")">>,
      <<"SERTIFIKASI", "LAHAN", "t", "(", "a", "BILANGAN", ")">> }

InsertHead(cols) == <<"TANAM", "KE", "t", "(">> \o cols \o <<")", "BIBIT", "(">>

InsertStatements ==
    { InsertHead(<<"a", ",", "b">>) \o <<"1", ",", "'x'", ")">>,
      InsertHead(<<"a", ",", "b">>) \o <<"1", ",", "true", ")">>,
      InsertHead(<<"a", ",", "b">>) \o <<"NULL", ",", "'x'", ")">>,
      InsertHead(<<"a">>) \o <<"'1'", ")">>,
      InsertHead(<<"a">>) \o <<"'x'", ")">>,
      InsertHead(<<"b">>) \o <<"'x'", ")">> }

\* the actions of the triggers: a statement on a table that does not exist, a
\* statement that does not parse, a statement cut inside its parentheses, and
\* a query that succeeds
TriggerActions ==
    { <<"GUSUR", "DARI", "x">>, <<"PANEN">>, <<"SERTIFIKASI", "LAHAN", "t", "(">>,
      <<"PANEN", "*", "DARI", "t">> }

TriggerStatements ==
    {<<"PASANG", "KENTONGAN", trigger[1], "PADA", trigger[2], "INSERT", "t", "LAKUKAN">>
        \o action : trigger \in {<<"x", "BEFORE">>, <<"v", "AFTER">>}, action \in TriggerActions}

\* SchemaManager._isValidType
ValidTypes == {"TEKS", "ANGKA", "TANGGAL", "BENAR_SALAH", "STRING", "NUMBER", "DATE", "BOOLEAN"}

\* the schema statement through query(): parse, then SchemaManager.defineSchema,
\* which rejects a definition with an unknown type and keeps the others in
\* this.schemas (the copy in the system table _schemas is not modelled)
DefineSchema(queryString) ==
    LET Define(cmd) ==
            /\ cmd.type = "DEFINE_SCHEMA"
            /\ schemas' = IF \A field \in DOMAIN cmd.schema :
                                 ToUpperCase(cmd.schema[field].type) \in ValidTypes
                          THEN cmd.schema
                          ELSE schemas
    IN  /\ Define(Parse(queryString, NoParams))
        /\ UNCHANGED <<triggers, tableData, indexedRows, lastInsert>>

\* the trigger statement through query(): parse, then TriggerManager.createTrigger
CreateTrigger(queryString) ==
    LET Create(cmd) ==
            /\ cmd.type = "CREATE_TRIGGER"
            /\ triggers' =
                  IF ToUpperCase(cmd.timing) \notin {"BEFORE", "AFTER"}
                     \/ ToUpperCase(cmd.event) \notin {"INSERT", "UPDATE", "DELETE"}
                     \/ \E k \in DOMAIN triggers : triggers[k].name = cmd.name
                  THEN triggers
                  ELSE Append(triggers,
                              [name |-> cmd.name, timing |-> ToUpperCase(cmd.timing),
                               event |-> ToUpperCase(cmd.event), table |-> cmd.table,
                               action |-> cmd.action])
    IN  /\ Len(triggers) < MaxTriggers
        /\ Create(Parse(queryString, NoParams))
        /\ UNCHANGED <<schemas, tableData, indexedRows, lastInsert>>

\* Number(value)
ToNumber(value) ==
    IF value.kind = "number" THEN value
    ELSE IF value.kind = "string" /\ value.text \in DOMAIN Numerals
    THEN Val("number", Numerals[value.text])
    ELSE IF value.kind = "boolean" THEN Val("number", IF value.text = "true" THEN "1" ELSE "0")
    ELSE Val("number", "NaN")

\* SchemaManager._validateType, for the types of the schemas above (no field
\* of the model is a TANGGAL or DATE)
ValidateType(value, type) ==
    LET upperType == ToUpperCase(type)
    IN  CASE upperType \in {"TEKS", "STRING"} ->
                 IF value.kind # "string" THEN [thrown |-> TRUE, value |-> value]
                 ELSE [thrown |-> FALSE, value |-> value]
          [] upperType \in {"ANGKA", "NUMBER"} ->
                 [thrown |-> ToNumber(value).text = "NaN", value |-> ToNumber(value)]
          [] upperType \in {"BENAR_SALAH", "BOOLEAN"} ->
                 IF value.kind = "boolean" THEN [thrown |-> FALSE, value |-> value]
                 ELSE IF value = Val("string", "true") \/ value = Val("number", "1")
                 THEN [thrown |-> FALSE, value |-> Val("boolean", "true")]
                 ELSE IF value = Val("string", "false") \/ value = Val("number", "0")
                 THEN [thrown |-> FALSE, value |-> Val("boolean", "false")]
                 ELSE [thrown |-> TRUE, value |-> value]
          [] OTHER -> [thrown |-> TRUE, value |-> value]

\* data[field], undefined when the object has no such property
Field(data, field) == IF field \in DOMAIN data THEN data[field] ELSE UndefinedVal

\* SchemaManager.validateData(tableName, data)
ValidateData(data) ==
    LET schema == schemas
        Missing1(field) == Field(data, field).kind \in {"undefined", "null"}
        Defaulted(field) ==
            Field(data, field).kind = "undefined" /\ schema[field].default.kind # "undefined"
        Typed(field) == ValidateType(Field(data, field), schema[field].type)
        throws ==
            \E field \in DOMAIN schema :
                \/ schema[field].required /\ Missing1(field)
                \/ ~Missing1(field) /\ Typed(field).thrown
        kept == {field \in DOMAIN schema :
                    Defaulted(field) \/ Field(data, field).kind # "undefined"}
    IN  IF schema = NoSchema THEN [thrown |-> FALSE, data |-> data]
        ELSE [thrown |-> throws,
              data |-> [field \in kept \cup DOMAIN data |->
                           IF field \notin DOMAIN schema THEN data[field]
                           ELSE IF Defaulted(field) THEN schema[field].default
                           ELSE IF Field(data, field).kind = "null" THEN NullVal
                           ELSE Typed(field).value]]

\* what executing the action of a trigger comes to: query() returns an error
\* string for a statement that does not parse or names a missing table, the
\* call of parse does not return for a statement on which the parser loops
TriggerOutcome(action) ==
    LET Outcome(cmd) ==
            IF cmd.type = "DIVERGES" THEN "diverges"
            ELSE IF cmd.type = "ERROR" THEN "fails"
            ELSE IF "table" \in DOMAIN cmd /\ cmd.table # "t" THEN "fails"
            ELSE "done"
    IN  Outcome(Parse(action, NoParams))

\* TriggerManager.executeTriggers(table, 'INSERT', timing): the triggers of the
\* table for the event and timing, each in its own try/catch; the number of
\* actions that were run to their end and whether the call returns
ExecuteTriggers(timing) ==
    LET Matches(trigger) == trigger.event = "INSERT" /\ trigger.timing = timing
        matchingTriggers == SelectSeq(triggers, Matches)
        Loop(stuck) ==
            IF stuck = {} THEN [returns |-> TRUE, ran |-> Len(matchingTriggers)]
            ELSE [returns |-> FALSE, ran |-> (CHOOSE k \in stuck : \A j \in stuck : k <= j) - 1]
    IN  Loop({k \in DOMAIN matchingTriggers :
                 TriggerOutcome(matchingTriggers[k].action) = "diverges"})

\* an INSERT statement through query(): parse, InsertExecutor.execute and
\* insertMany: validation, BEFORE triggers, the row and its index entries,
\* AFTER triggers, the result string
InsertStatement(queryString) ==
    LET InsertValidated(cmd, validated, fired) ==
            LET before == fired["BEFORE"]
                after == fired["AFTER"]
                written == before.returns /\ ~validated.thrown
            IN  /\ tableData' = IF written THEN Append(tableData, validated.data)
                                ELSE tableData
                /\ indexedRows' = IF written THEN Append(indexedRows, validated.data)
                                  ELSE indexedRows
                /\ lastInsert' =
                      [data |-> cmd.data, schema |-> schemas, triggers |-> triggers,
                       result |-> IF DOMAIN cmd.data = {} \/ validated.thrown THEN "Error"
                                  ELSE IF before.returns /\ after.returns
                                  THEN "1 bibit tertanam."
                                  ELSE "never returns",
                       ran |-> IF validated.thrown THEN 0
                               ELSE IF before.returns THEN before.ran + after.ran
                               ELSE before.ran]
        InsertParsed(cmd) ==
            /\ cmd.type = "INSERT"
            /\ InsertValidated(cmd, ValidateData(cmd.data),
                          [timing \in {"BEFORE", "AFTER"} |-> ExecuteTriggers(timing)])
    IN  /\ Len(tableData) < MaxInserts
        /\ InsertParsed(Parse(queryString, NoParams))
        /\ UNCHANGED <<schemas, triggers>>

NoInsert ==
    [data |-> <<>>, schema |-> NoSchema, triggers |-> <<>>, result |-> "none", ran |-> 0]

InsertAtRest ==
    /\ schemas = NoSchema
    /\ triggers = <<>>
    /\ tableData = <<>>
    /\ indexedRows = <<>>
    /\ lastInsert = NoInsert

(***************************************************************************)
(* Scanning a table: SawitDB._scanTable                                    *)
(*                                                                         *)
(* The rows of the page chain in chain order, the criteria and the limit   *)
(* of one call.  Field values and patterns are strings, kept as sequences  *)
(* of characters.  The SELECT executor is not part of the sources: its     *)
(* window over the scanned rows follows the specification.                 *)
(***************************************************************************)
\* rows in the page chain of the scanned table
MaxScanRows == 3
\* the largest LIMIT and OFFSET of a call
MaxLimit == 2
\* characters in a pattern and in a field value
MaxPattern == 2

\* criteria = null
NoCriteria == [none |-> TRUE]
\* limit = null, offset = null
NoLimit == -1

ValueChars == {"a", "A", "b", "."}
PatternChars == {"a", ".", "%", "_", "*"}

StringsOver(chars, n) == UNION {[1 .. k -> chars] : k \in 0 .. n}

\* ---- regular expressions: new RegExp('^' + source + '$', 'i') ----
Backslash == "\\"

\* the atoms of a source: a character set to match one character, `.` for any
\* character, each with or without `*`; a `*` with nothing to repeat is the
\* SyntaxError of the constructor
RECURSIVE Compile(_, _)
Compile(source, atoms) ==
    IF source = <<>> THEN [thrown |-> FALSE, atoms |-> atoms]
    ELSE IF Head(source) = "*" THEN
        IF atoms = <<>> \/ atoms[Len(atoms)].star THEN [thrown |-> TRUE, atoms |-> atoms]
        ELSE Compile(Tail(source), [atoms EXCEPT ![Len(atoms)].star = TRUE])
    ELSE IF Head(source) = Backslash THEN
        IF Len(source) = 1 THEN [thrown |-> TRUE, atoms |-> atoms]
        ELSE Compile(Tail(Tail(source)),
                     Append(atoms, [any |-> FALSE, ch |-> source[2], star |-> FALSE]))
    ELSE Compile(Tail(source),
                 Append(atoms, [any |-> Head(source) = ".", ch |-> Head(source),
                                star |-> FALSE]))

\* the flag i
Fold(ch) == IF ch = "A" THEN "a" ELSE ch

AtomMatches(atom, ch) == atom.any \/ Fold(atom.ch) = Fold(ch)

\* regex.test(val) for an anchored expression
RECURSIVE Test(_, _)
Test(atoms, val) ==
    IF atoms = <<>> THEN val = <<>>
    ELSE IF Head(atoms).star
    THEN \/ Test(Tail(atoms), val)
         \/ val # <<>> /\ AtomMatches(Head(atoms), Head(val)) /\ Test(atoms, Tail(val))
    ELSE val # <<>> /\ AtomMatches(Head(atoms), Head(val)) /\ Test(Tail(atoms), Tail(val))

\* pattern.replace(/%/g, '.*').replace(/_/g, '.')
RECURSIVE Wildcards(_)
Wildcards(pattern) ==
    IF pattern = <<>> THEN <<>>
    ELSE (IF Head(pattern) = "%" THEN <<".", "*">>
          ELSE IF Head(pattern) = "_" THEN <<".">>
          ELSE <<Head(pattern)>>) \o Wildcards(Tail(pattern))

\* the escape of the regex metacharacters of a pattern
RECURSIVE EscapeRegex(_)
EscapeRegex(pattern) ==
    IF pattern = <<>> THEN <<>>
    ELSE (IF Head(pattern) \in {".", "*", Backslash} THEN <<Backslash, Head(pattern)>>
          ELSE <<Head(pattern)>>) \o EscapeRegex(Tail(pattern))

\* new RegExp(...).test(val): the match, or the exception of the constructor
RegExpTest(source, val) ==
    LET Tested(compiled) ==
            [thrown |-> compiled.thrown,
             matches |-> ~compiled.thrown /\ Test(compiled.atoms, val)]
    IN  Tested(Compile(source, <<>>))

\* the LIKE inlined in _scanTable
InlineLike(pattern, val) == RegExpTest(Wildcards(pattern), val)

\* the LIKE of ConditionEvaluator: metacharacters escaped, then the wildcards
\* translated (`%` and `_` are no metacharacters and pass the escape)
EvaluatorLike(pattern, val) == RegExpTest(Wildcards(EscapeRegex(pattern)), val)

\* ---- _scanTable ----
\* one row against the criteria: the inlined comparison for a criteria object
\* without `type`, ConditionEvaluator.checkMatch for the others
RowMatches(obj, criteria) ==
    IF criteria = NoCriteria THEN [thrown |-> FALSE, matches |-> TRUE]
    ELSE IF "type" \notin DOMAIN criteria
    THEN IF criteria.op = "LIKE" THEN InlineLike(criteria.val, obj[criteria.key])
         ELSE [thrown |-> FALSE, matches |-> obj[criteria.key] = criteria.val]
    ELSE IF criteria.op = "LIKE" THEN EvaluatorLike(criteria.val, obj[criteria.key])
         ELSE [thrown |-> FALSE, matches |-> obj[criteria.key] = criteria.val]

\* the loops over the pages and their items, on the items of the chain in
\* order: both loops stop when results.length reaches effectiveLimit
RECURSIVE ScanItems(_, _, _, _)
ScanItems(items, criteria, effectiveLimit, results) ==
    IF items = <<>> \/ Len(results) >= effectiveLimit
    THEN [thrown |-> FALSE, rows |-> results]
    ELSE IF RowMatches(Head(items), criteria).thrown THEN [thrown |-> TRUE, rows |-> <<>>]
    ELSE ScanItems(Tail(items), criteria, effectiveLimit,
                   IF RowMatches(Head(items), criteria).matches
                   THEN Append(results, Head(items))
                   ELSE results)

\* const effectiveLimit = limit || Infinity: null and 0 are falsy; Infinity is
\* a length no result reaches
EffectiveLimit(items, limit) ==
    IF limit = NoLimit \/ limit = 0 THEN Len(items) + 1 ELSE limit

ScanWithLimit(items, criteria, limit) ==
    ScanItems(items, criteria, EffectiveLimit(items, limit), <<>>)

\* rows.slice(m, m + n)
SliceRows(rows, m, n) ==
    [k \in 1 .. (IF m >= Len(rows) THEN 0
                 ELSE IF m + n > Len(rows) THEN Len(rows) - m ELSE n) |-> rows[m + k]]

\* the window of the SELECT executor: OFFSET, then LIMIT
SelectWindow(rows, limit, offset) ==
    SliceRows(rows, IF offset = NoLimit THEN 0 ELSE offset,
              IF limit = NoLimit THEN Len(rows) ELSE limit)

\* ---- the calls ----
ScanRows == {[f |-> <<"a">>], [f |-> <<"b">>]}

LimitCalls ==
    [items : UNION {[1 .. k -> ScanRows] : k \in 0 .. MaxScanRows},
     criteria : {NoCriteria, [key |-> "f", op |-> "=", val |-> <<"a">>]},
     limit : {NoLimit} \cup (0 .. MaxLimit),
     offset : {NoLimit} \cup (0 .. MaxLimit)]

LikeCalls ==
    {[items |-> <<[f |-> val]>>, criteria |-> criteria, limit |-> NoLimit, offset |-> NoLimit] :
        val \in StringsOver(ValueChars, MaxPattern),
        criteria \in {[key |-> "f", op |-> "LIKE", val |-> pattern] :
                         pattern \in StringsOver(PatternChars, MaxPattern)}
                     \cup {Cond("f", "LIKE", pattern) :
                              pattern \in StringsOver(PatternChars, MaxPattern)}}

NotScanned == [call |-> "none", thrown |-> FALSE, rows |-> <<>>]

\* _scanTable(entry, criteria, limit)
CallScanTable ==
    LET Scanned(result) ==
            scanOutput' = [call |-> "scan", thrown |-> result.thrown, rows |-> result.rows]
    IN  /\ scanOutput = NotScanned
        /\ Scanned(ScanWithLimit(scanInput.items, scanInput.criteria, scanInput.limit))
        /\ UNCHANGED scanInput

\* a SELECT with the criteria, LIMIT and OFFSET of the call: the scan of the
\* table, then the window
CallSelect ==
    LET Selected(result) ==
            scanOutput' =
                [call |-> "select", thrown |-> result.thrown,
                 rows |-> SelectWindow(result.rows, scanInput.limit, scanInput.offset)]
    IN  /\ scanOutput = NotScanned
        /\ Selected(ScanWithLimit(scanInput.items, scanInput.criteria, NoLimit))
        /\ UNCHANGED scanInput

ScanAtRest ==
    /\ scanInput = [items |-> <<>>, criteria |-> NoCriteria, limit |-> NoLimit, offset |-> NoLimit]
    /\ scanOutput = NotScanned

(***************************************************************************)
(* InsertExecutor.insertMany on a batch of rows: validation of every row,  *)
(* BEFORE triggers, pages, index entries, audit records, the catalog       *)
(* entry, AFTER triggers                                                   *)
(***************************************************************************)
\* rows of t after which no batch is taken
MaxTableRows == 2
\* records that fit into a page
RowsPerPage == 1

\* the rows of a batch: the data of parsed INSERT statements
BatchRows ==
    {Parse(queryString, NoParams).data :
        queryString \in { InsertHead(<<"a", ",", "b">>) \o <<"1", ",", "'x'", ")">>,
                          InsertHead(<<"a">>) \o <<"'x'", ")">>,
                          InsertHead(<<"b">>) \o <<"'x'", ")">> }}

BatchesOf(n) == UNION {[1 .. k -> BatchRows] : k \in 0 .. n}

\* triggers whose actions return
BatchTriggerStatements ==
    {q \in TriggerStatements : q[Len(q)] = "t"}

\* validation of a row only when its turn to be written comes: the rows before
\* the one that fails have been through the triggers and into the pages
ValidateBatchLate(dataArray) ==
    LET failing == {k \in DOMAIN dataArray : ValidateData(dataArray[k]).thrown}
        first == CHOOSE k \in failing : \A j \in failing : k <= j
    IN  IF failing = {}
        THEN [thrown |-> FALSE, failedAt |-> 0,
              list |-> [k \in DOMAIN dataArray |-> ValidateData(dataArray[k]).data]]
        ELSE [thrown |-> FALSE, failedAt |-> first,
              list |-> [k \in 1 .. first - 1 |-> ValidateData(dataArray[k]).data]]

\* the validation loop: validateData on each row in order, the first throw
\* ends insertMany
ValidateBatch(dataArray) ==
    LET failing == {k \in DOMAIN dataArray : ValidateData(dataArray[k]).thrown}
    IN  IF failing = {}
        THEN [thrown |-> FALSE, failedAt |-> 0,
              list |-> [k \in DOMAIN dataArray |-> ValidateData(dataArray[k]).data]]
        ELSE [thrown |-> TRUE,
              failedAt |-> CHOOSE k \in failing : \A j \in failing : k <= j,
              list |-> <<>>]

\* the loop over validatedDataArray: a row that does not fit makes the page
\* be written, a page be allocated and the page be written again with its link
RECURSIVE WriteRows(_, _)
WriteRows(entry, n) ==
    IF n = 0 THEN entry
    ELSE IF entry.count >= RowsPerPage
    THEN WriteRows([lastPage |-> entry.lastPage + 1, count |-> 1,
                    allocated |-> entry.allocated + 1, written |-> entry.written + 2],
                   n - 1)
    ELSE WriteRows([entry EXCEPT !.count = entry.count + 1], n - 1)

\* the final write of the current page
FinalWrite(entry) == [entry EXCEPT !.written = entry.written + 1]

\* insertMany(table, dataArray) with the audit logger enabled
InsertBatch(dataArray) ==
    LET Written(validated, before, after) ==
            LET written == ~validated.thrown /\ before.returns
                rows == IF written THEN validated.list ELSE <<>>
            IN  /\ tableData' = tableData \o rows
                /\ indexedRows' = indexedRows \o rows
                /\ auditLog' = auditLog \o rows
                /\ catalog' = IF written THEN FinalWrite(WriteRows(catalog, Len(rows)))
                              ELSE catalog
                /\ lastBatch' =
                      [rows |-> dataArray, failedAt |-> validated.failedAt,
                       fired |-> IF validated.thrown THEN 0
                                 ELSE IF before.returns THEN Len(dataArray) * before.ran
                                 ELSE before.ran,
                       result |-> IF validated.thrown THEN "Error"
                                  ELSE IF before.returns /\ after.returns THEN "tertanam"
                                  ELSE "never returns"]
    IN  /\ Len(tableData) + Len(dataArray) <= MaxTableRows
        /\ IF Len(dataArray) = 0
           THEN /\ lastBatch' = [rows |-> dataArray, failedAt |-> 0, fired |-> 0,
                                 result |-> "Tidak ada bibit untuk ditanam."]
                /\ UNCHANGED <<tableData, indexedRows, auditLog, catalog>>
           ELSE Written(ValidateBatch(dataArray), ExecuteTriggers("BEFORE"),
                        ExecuteTriggers("AFTER"))
        /\ UNCHANGED <<schemas, triggers, lastInsert>>

NoBatch == [rows |-> <<>>, failedAt |-> 0, fired |-> 0, result |-> "none"]

\* a table whose first page is allocated and empty
BatchAtRest ==
    /\ catalog = [lastPage |-> 1, count |-> 0, allocated |-> 1, written |-> 0]
    /\ auditLog = <<>>
    /\ lastBatch = NoBatch

(***************************************************************************)
(* Stored procedures: ProcedureManager.createProcedure and                 *)
(* executeProcedure on the statements SIMPAN SOP and JALANKAN SOP          *)
(***************************************************************************)
\* a body with two parameters, one with one parameter, one without
ProcedureStatements ==
    { <<"SIMPAN", "SOP", "p", "(", "@v", ",", "@w", ")", "SEBAGAI">>
          \o InsertHead(<<"a", ",", "b">>) \o <<"@v", ",", "@w", ")">>,
      <<"SIMPAN", "SOP", "p", "(", "@v", ")", "SEBAGAI">>
          \o InsertHead(<<"a">>) \o <<"@v", ")">>,
      <<"SIMPAN", "SOP", "q", "(", "@w", ")", "SEBAGAI">>
          \o InsertHead(<<"a", ",", "b">>) \o <<"1", ",", "@w", ")">>,
      <<"SIMPAN", "SOP", "r", "SEBAGAI">> \o InsertHead(<<"a">>) \o <<"'x'", ")">>,
      <<"SIMPAN", "SOP", "e", "SEBAGAI">> }

ArgumentLists ==
    { <<"(", ")">>, <<"(", "'x'", ")">>, <<"(", "2", ")">>,
      <<"(", "'x'", ",", "2", ")">>, <<"(", "2", ",", "'x'", ",", "1", ")">> }

\* calls with and without parentheses, of procedures that exist and of z that does not
CallStatements ==
    {<<"JALANKAN", "SOP", name>> \o args :
         name \in {"p", "q", "r", "e", "z"}, args \in ArgumentLists \cup {<<>>}}

\* createProcedure: a name that _procedures already holds is refused
CreateProcedure(queryString) ==
    LET Created(cmd) ==
            /\ cmd.type = "CREATE_PROCEDURE"
            /\ procedures' =
                  IF cmd.name \in DOMAIN procedures THEN procedures
                  ELSE procedures @@ (cmd.name :> [params |-> cmd.params, body |-> cmd.body])
    IN  /\ Created(Parse(queryString, NoParams))
        /\ UNCHANGED <<lastCall, insertVars>>

\* procedure.params[i].replace('@', '')
ParamName(param) == IF param \in DOMAIN ParamNames THEN ParamNames[param] ELSE param

\* paramMap of executeProcedure
ParamMap(params, args) ==
    ObjectOf([i \in DOMAIN params |-> ParamName(params[i])], args, Len(params))

\* a call that runs no statement: it throws, or the body is empty
NothingRun(cmd, result) ==
    /\ lastCall' = [name |-> cmd.name, args |-> cmd.args, params |-> <<>>,
                    rows |-> Len(tableData), result |-> result]
    /\ UNCHANGED insertVars

\* the statement of the body: it is parsed with paramMap into `command`, which
\* is not read again, and then run by engine.query(query), which is given no
\* parameters
RunBody(cmd, procedure) ==
    /\ Parse(procedure.body, ParamMap(procedure.params, cmd.args)).type = "INSERT"
    /\ InsertStatement(procedure.body)
    /\ lastCall' = [name |-> cmd.name, args |-> cmd.args, params |-> procedure.params,
                    rows |-> Len(tableData), result |-> lastInsert'.result]

\* executeProcedure(cmd.name, cmd.args): an unknown name and a wrong number of
\* arguments throw before anything runs.  The body holds no ';' (tokenize
\* drops it), so it is no statement or one statement.
ExecuteParsed(cmd) ==
    /\ cmd.type = "EXECUTE_PROCEDURE"
    /\ IF cmd.name \notin DOMAIN procedures THEN NothingRun(cmd, "Error")
       ELSE IF Len(cmd.args) # Len(procedures[cmd.name].params)
       THEN NothingRun(cmd, "Error")
       ELSE IF Len(procedures[cmd.name].body) = 0 THEN NothingRun(cmd, "[]")
       ELSE RunBody(cmd, procedures[cmd.name])

\* JALANKAN SOP through query()
ExecuteProcedure(queryString) ==
    /\ ExecuteParsed(Parse(queryString, NoParams))
    /\ UNCHANGED procedures

NoCall == [name |-> "", args |-> <<>>, params |-> <<>>, rows |-> 0, result |-> "none"]

ProcAtRest ==
    /\ procedures = <<>>
    /\ lastCall = NoCall

(***************************************************************************)
(* SawitServer.#handleConnection: the client set and the connection count  *)
(***************************************************************************)
\* the sockets that connect, each once
NumSockets == 3
Sockets == 1 .. NumSockets
\* config.maxConnections
MaxConnections == 2
\* the limit of the buffer of a connection, in characters
BufferLimit == 1048576

\* the lengths of the chunks a client sends: half the limit, and the limit
ChunkLengths == {BufferLimit \div 2, BufferLimit}

OpenSockets == {s \in Sockets : sockets[s].state = "open"}

\* the 'connection' event: over the limit the socket gets an error frame and
\* is ended, otherwise it is counted and added to the client set
Connect(s) ==
    /\ sockets[s].state = "unused"
    /\ IF Cardinality(clients) >= MaxConnections
       THEN /\ sockets' = [sockets EXCEPT ![s] =
                             [state |-> "refused", buffer |-> 0,
                              others |-> Cardinality(OpenSockets)]]
            /\ UNCHANGED <<clients, activeConnections>>
       ELSE /\ sockets' = [sockets EXCEPT ![s] =
                             [state |-> "open", buffer |-> 0,
                              others |-> Cardinality(OpenSockets)]]
            /\ clients' = clients \cup {s}
            /\ activeConnections' = activeConnections + 1

\* the 'data' event with a chunk of `length` characters: a buffer over the
\* limit gets an error frame and socket.destroy(); otherwise the complete
\* frames are taken from the buffer (`complete`: the chunk ends with a newline)
SocketData(s, length, complete) ==
    /\ sockets[s].state = "open"
    /\ sockets' = [sockets EXCEPT ![s] =
                      IF sockets[s].buffer + length > BufferLimit
                      THEN [@ EXCEPT !.state = "destroyed",
                                     !.buffer = sockets[s].buffer + length]
                      ELSE [@ EXCEPT !.buffer = IF complete THEN 0
                                                ELSE sockets[s].buffer + length]]
    /\ UNCHANGED <<clients, activeConnections>>

\* the 'end' event: the peer has closed its side
SocketEnd(s) ==
    /\ sockets[s].state = "open"
    /\ sockets' = [sockets EXCEPT ![s].state = "ended"]
    /\ clients' = clients \ {s}
    /\ activeConnections' = activeConnections - 1

\* the 'error' event of an open socket
SocketError(s) ==
    /\ sockets[s].state = "open"
    /\ sockets' = [sockets EXCEPT ![s].state = "errored"]
    /\ clients' = clients \ {s}
    /\ activeConnections' = activeConnections - 1

\* the 'timeout' event after queryTimeout without traffic: socket.destroy(),
\* after which the socket emits 'close' and neither 'end' nor 'error'
SocketTimeout(s) ==
    /\ sockets[s].state = "open"
    /\ sockets' = [sockets EXCEPT ![s].state = "destroyed"]
    /\ UNCHANGED <<clients, activeConnections>>

ConnAtRest ==
    /\ sockets = [s \in Sockets |-> [state |-> "unused", buffer |-> 0, others |-> 0]]
    /\ clients = {}
    /\ activeConnections = 0

(***************************************************************************)
(* The WAL of the engines: opened by #getOrCreateDatabase on the main      *)
(* thread and by the worker threads of the pool                            *)
(***************************************************************************)
\* the configurations of the server: no wal entry, WAL off, WAL on
ServerConfigs ==
    {[port |-> "7878"], [wal |-> [enabled |-> FALSE]], [wal |-> [enabled |-> TRUE]]}

\* this.walConfig = config.wal || { enabled: false }
WalConfig(config) == IF "wal" \in DOMAIN config THEN config.wal ELSE [enabled |-> FALSE]

\* SawitDB constructor: this.wal = options.wal ? new WAL(filePath, options.wal) : null;
\* the WAL is enabled by the `enabled` field of its options
EngineWal(options) ==
    IF "wal" \notin DOMAIN options THEN "null"
    ELSE IF "enabled" \in DOMAIN options.wal /\ options.wal.enabled THEN "enabled"
    ELSE "disabled"

\* #getOrCreateDatabase: new SawitDB(dbPath, { wal: this.walConfig })
LocalOptions(walConfig) == [wal |-> walConfig]

\* threadPool.execute(dbPath, query, this.walConfig) posts the task with
\* config: walConfig, and the worker opens new SawitDB(task.dbPath, task.config || {})
WorkerOptions(walConfig) == walConfig

\* #getOrCreateDatabase(name)
GetOrCreateDatabase(name) ==
    /\ name \notin DOMAIN localEngines
    /\ localEngines' =
          localEngines @@ (name :> EngineWal(LocalOptions(WalConfig(serverConfig))))
    /\ UNCHANGED <<serverConfig, workerEngines>>

\* the worker's message handler for a query on a database that is not in its dbCache
WorkerOpen(w, name) ==
    /\ name \notin DOMAIN workerEngines[w]
    /\ workerEngines' =
          [workerEngines EXCEPT ![w] =
              @ @@ (name :> EngineWal(WorkerOptions(WalConfig(serverConfig))))]
    /\ UNCHANGED <<serverConfig, localEngines>>

\* #handleDropDatabase closes the engine of the main thread and forgets it
CloseLocal(name) ==
    /\ name \in DOMAIN localEngines
    /\ localEngines' = [n \in DOMAIN localEngines \ {name} |-> localEngines[n]]
    /\ UNCHANGED <<serverConfig, workerEngines>>

OpenAtRest ==
    /\ serverConfig = [port |-> "7878"]
    /\ localEngines = <<>>
    /\ workerEngines = [w \in Workers |-> <<>>]

\* the parser and the query front of the engine before any call, no socket
\* connected and no engine opened
FrontAtRest ==
    /\ ParseAtRest /\ QueryAtRest /\ InsertAtRest /\ ScanAtRest /\ ProcAtRest
    /\ BatchAtRest /\ ConnAtRest /\ OpenAtRest

(***************************************************************************)
(* ThreadPool                                                              *)
(***************************************************************************)

\* ThreadPool constructor followed by start(): every worker spawned, no load.
InitPool ==
    /\ isReady = TRUE
    /\ activeTasks = [w \in Workers |-> 0]
    /\ workerStats = [w \in Workers |-> 0]
    /\ pendingRequests = [i \in {} |-> None]
    /\ requestIdCounter = 0
    /\ settled = [i \in {} |-> None]
    /\ inbox = [w \in Workers |-> <<>>]
    /\ outbox = [w \in Workers |-> <<>>]
    /\ dbCache = [w \in Workers |-> {}]

\* The loop of _getBestWorker over i = 0 .. upto, as (minLoad, bestIndex):
\* a strictly smaller load replaces the best index, so the lowest index wins ties.
\* minLoad = -1 stands for Infinity.
RECURSIVE BestUpTo(_, _)
BestUpTo(load, upto) ==
    IF upto < 0 THEN <<-1, 0>>
    ELSE LET prev == BestUpTo(load, upto - 1)
         IN  IF prev[1] = -1 \/ load[upto] < prev[1]
             THEN <<load[upto], upto>>
             ELSE prev

\* ThreadPool._getBestWorker: least-busy worker; the database path plays no part.
\* (GetLastBestWorker: the same with `load <= minLoad`, the highest index
\* winning ties)
GetLastBestWorker(load) ==
    CHOOSE w \in Workers :
        /\ \A v \in Workers : load[w] <= load[v]
        /\ \A v \in Workers : v > w => load[v] > load[w]
GetBestWorker(load) == BestUpTo(load, NumWorkers - 1)[2]

\* ThreadPool.execute(dbPath, sql, config): choose a worker, count the task, register
\* the pending request with its timer and post the task to the worker.
Execute(p) ==
    /\ isReady
    /\ requestIdCounter < MaxRequests
    /\ LET workerIndex == GetBestWorker(activeTasks)
           id == requestIdCounter + 1
       IN  /\ workerStats' = [workerStats EXCEPT ![workerIndex] = @ + 1]
           /\ activeTasks' = [activeTasks EXCEPT ![workerIndex] = @ + 1]
           /\ requestIdCounter' = id
           /\ pendingRequests' =
                 [i \in DOMAIN pendingRequests \cup {id} |->
                     IF i = id THEN [workerIndex |-> workerIndex]
                     ELSE pendingRequests[i]]
           /\ settled' = [i \in DOMAIN settled \cup {id} |->
                             IF i = id THEN "pending" ELSE settled[i]]
           /\ inbox' = [inbox EXCEPT ![workerIndex] =
                           Append(@, [id |-> id, action |-> "query", dbPath |-> p])]
    /\ UNCHANGED <<isReady, outbox, dbCache>>

\* SawitWorker message handler, action 'query': open the database if this thread
\* has not opened it, run the query and post the reply. When the constructor or
\* the query throws, an error reply is posted (a constructor that throws leaves
\* the cache as it was).
WorkerQuery(w, throws) ==
    /\ inbox[w] # <<>>
    /\ LET task == Head(inbox[w])
       IN  /\ task.action = "query"
           /\ dbCache' = IF throws /\ task.dbPath \notin dbCache[w]
                         THEN dbCache
                         ELSE [dbCache EXCEPT ![w] = @ \cup {task.dbPath}]
           /\ outbox' = [outbox EXCEPT ![w] =
                            Append(@, [id |-> task.id,
                                       status |-> IF throws THEN "error" ELSE "ok"])]
    /\ inbox' = [inbox EXCEPT ![w] = Tail(@)]
    /\ UNCHANGED <<isReady, activeTasks, workerStats, pendingRequests,
                   requestIdCounter, settled>>

\* ThreadPool._handleMessage(msg): a reply for an unknown (timed out, cleaned up)
\* id is dropped; otherwise the request leaves the pending table, the load of its
\* worker is decremented (never below 0) and the promise is settled.
HandleMessage(w) ==
    /\ outbox[w] # <<>>
    /\ LET msg == Head(outbox[w])
       IN  IF msg.id \notin DOMAIN pendingRequests
           THEN UNCHANGED <<pendingRequests, activeTasks, settled>>
           ELSE LET req == pendingRequests[msg.id]
                IN  /\ pendingRequests' =
                          [i \in DOMAIN pendingRequests \ {msg.id} |-> pendingRequests[i]]
                    /\ activeTasks' =
                          IF activeTasks[req.workerIndex] > 0
                          THEN [activeTasks EXCEPT ![req.workerIndex] = @ - 1]
                          ELSE activeTasks
                    /\ settled' = [settled EXCEPT ![msg.id] =
                                      IF msg.status = "ok" THEN "resolved"
                                      ELSE "rejected_error"]
    /\ outbox' = [outbox EXCEPT ![w] = Tail(@)]
    /\ UNCHANGED <<isReady, workerStats, requestIdCounter, inbox, dbCache>>

\* The 30 s timer armed by execute: if the request is still pending it is removed
\* and rejected; the load of the worker is left as it is. (TimeoutKeepsPending:
\* the same without pendingRequests.delete(id))
TimeoutKeepsPending(id) ==
    /\ id \in DOMAIN pendingRequests
    /\ settled[id] = "pending"
    /\ settled' = [settled EXCEPT ![id] = "rejected_timeout"]
    /\ UNCHANGED <<isReady, activeTasks, workerStats, pendingRequests,
                   requestIdCounter, inbox, outbox, dbCache>>
Timeout(id) ==
    /\ id \in DOMAIN pendingRequests
    /\ pendingRequests' = [i \in DOMAIN pendingRequests \ {id} |-> pendingRequests[i]]
    /\ settled' = [settled EXCEPT ![id] = "rejected_timeout"]
    /\ UNCHANGED <<isReady, activeTasks, workerStats, requestIdCounter,
                   inbox, outbox, dbCache>>

\* ThreadPool._cleanupTasks(workerIndex): the ids of the pending requests of a worker.
\* (CleanupAllIds: the same without the test of req.workerIndex)
CleanupAllIds(workerIndex) == DOMAIN pendingRequests
CleanupIds(workerIndex) ==
    {i \in DOMAIN pendingRequests : pendingRequests[i].workerIndex = workerIndex}

\* Worker 'exit' handler with a non-zero code: reject and remove its pending
\* requests, reset its load and spawn a new worker in the slot. The new thread
\* starts with an empty dbCache and an empty message queue.
WorkerCrash(w) ==
    /\ pendingRequests' =
          [i \in DOMAIN pendingRequests \ CleanupIds(w) |-> pendingRequests[i]]
    /\ settled' = [i \in DOMAIN settled |->
                      IF i \in CleanupIds(w) THEN "rejected_crash" ELSE settled[i]]
    /\ activeTasks' = [activeTasks EXCEPT ![w] = 0]
    /\ inbox' = [inbox EXCEPT ![w] = <<>>]
    /\ outbox' = [outbox EXCEPT ![w] = <<>>]
    /\ dbCache' = [dbCache EXCEPT ![w] = {}]
    /\ UNCHANGED <<isReady, workerStats, requestIdCounter>>

(***************************************************************************)
(* SawitServer                                                             *)
(***************************************************************************)

\* the characters of the class [a-zA-Z0-9_-]
NameChars ==
    {"a", "b", "c", "d", "e", "f", "g", "h", "i", "j", "k", "l", "m",
     "n", "o", "p", "q", "r", "s", "t", "u", "v", "w", "x", "y", "z",
     "A", "B", "C", "D", "E", "F", "G", "H", "I", "J", "K", "L", "M",
     "N", "O", "P", "Q", "R", "S", "T", "U", "V", "W", "X", "Y", "Z",
     "0", "1", "2", "3", "4", "5", "6", "7", "8", "9", "_", "-"}

\* /^[a-zA-Z0-9_-]+$/.test(name)
ValidName(name) == Len(name) > 0 /\ \A i \in 1 .. Len(name) : name[i] \in NameChars

\* config.auth of the server when authentication is configured: user -> password
\* (legacy plaintext entry), a password being its characters.
AuthUsers == {"admin"}
AuthTable == [u \in AuthUsers |-> <<"s", "3">>]

\* the character with code 0
NUL == "NUL"

\* String.prototype.padEnd(n, '\0')
PadEnd(str, n) ==
    IF Len(str) >= n THEN str ELSE str \o [i \in 1 .. (n - Len(str)) |-> NUL]

\* #verifyPassword, plaintext branch: both strings padded with NUL to the
\* length of the longer and compared byte for byte.
VerifyPassword(password, storedHash) ==
    LET maxLen == IF Len(password) > Len(storedHash) THEN Len(password)
                  ELSE Len(storedHash)
    IN  PadEnd(password, maxLen) = PadEnd(storedHash, maxLen)

\* ---- what a handler does, as a record: the response frame it writes (type
\* None: nothing written before it returns), the file system, registry and
\* session after it, and the statement it leaves running ("none", "local",
\* "pool") against database db.
Keep(c) ==
    [type |-> None, msg |-> None, files |-> files, databases |-> databases,
     authenticated |-> authenticated[c], currentDatabase |-> currentDatabase[c],
     run |-> "none", db |-> NoDb]

\* #sendResponse(socket, {type, ...})
SendResponse(c, type, msg) == [Keep(c) EXCEPT !.type = type, !.msg = msg]

\* #sendError(socket, message)
SendError(c, msg) == SendResponse(c, "error", msg)

\* #handleAuth(socket, payload, context)
HandleAuth(c, payload) ==
    IF ~auth
    THEN [SendResponse(c, "auth_success", "No authentication required")
             EXCEPT !.authenticated = TRUE]
    ELSE IF /\ payload.username \in DOMAIN AuthTable
            /\ VerifyPassword(payload.password, AuthTable[payload.username])
         THEN [SendResponse(c, "auth_success", "Authentication successful")
                  EXCEPT !.authenticated = TRUE]
         ELSE SendError(c, "Invalid credentials")

\* #handleUseDatabase(socket, payload, context); #getOrCreateDatabase opens the
\* engine, which creates the file when it is missing, and registers it.
HandleUseDatabase(c, payload) ==
    IF payload.database = NoDb
    THEN SendError(c, "Invalid database name")
    ELSE IF ~ValidName(payload.database)
         THEN SendError(c, "Database name can only contain letters, numbers, underscore, and dash")
         ELSE [SendResponse(c, "use_success", "Switched to database")
                  EXCEPT !.files = files \cup {payload.database},
                         !.databases = databases \cup {payload.database},
                         !.currentDatabase = payload.database]

\* The generic aliases of #handleQuery (5. to 8.) rewrite the statement and
\* call #handleQuery again.
Canonical(verb) ==
    CASE verb = "CREATE DATABASE" -> "BUKA WILAYAH"
      [] verb = "USE" -> "MASUK WILAYAH"
      [] verb = "SHOW DATABASES" -> "LIHAT WILAYAH"
      [] verb = "DROP DATABASE" -> "BAKAR WILAYAH"
      [] OTHER -> verb

\* #handleQuery(socket, payload, context) up to its first await. The statement
\* is [verb, arg]: arg is the word after the verb (parts[2]), NoDb when the
\* statement has fewer words.
HandleQuery(c, payload) ==
    LET verb == Canonical(payload.query.verb)
        dbName == payload.query.arg
    IN  CASE verb = "LIHAT WILAYAH" ->
                SendResponse(c, "query_result", "Daftar Wilayah")
          [] verb = "BUKA WILAYAH" ->
                IF dbName = NoDb THEN SendError(c, "Syntax")
                ELSE IF ~ValidName(dbName)
                     THEN SendError(c, "Nama wilayah hanya boleh huruf, angka, _ dan -")
                ELSE IF dbName \in files
                     THEN SendResponse(c, "query_result", "sudah ada")
                ELSE [SendResponse(c, "query_result", "berhasil dibuka")
                         EXCEPT !.files = files \cup {dbName}]
          [] verb = "MASUK WILAYAH" ->
                IF dbName = NoDb THEN SendError(c, "Syntax")
                ELSE IF dbName \notin files
                     THEN SendError(c, "tidak ditemukan")
                ELSE [SendResponse(c, "query_result", "Selamat datang")
                         EXCEPT !.currentDatabase = dbName]
          [] verb = "BAKAR WILAYAH" ->
                IF dbName = NoDb THEN SendError(c, "Syntax")
                ELSE IF dbName \notin files
                     THEN SendError(c, "tidak ditemukan")
                ELSE [SendResponse(c, "query_result", "hangus terbakar")
                         EXCEPT !.databases = databases \ {dbName},
                                !.currentDatabase =
                                    IF currentDatabase[c] = dbName THEN NoDb
                                    ELSE currentDatabase[c],
                                !.files = files \ {dbName}]
          [] OTHER ->
                IF currentDatabase[c] = NoDb
                THEN SendError(c, "Anda belum masuk wilayah manapun")
                ELSE IF threadPool
                     THEN [Keep(c) EXCEPT !.run = "pool", !.db = currentDatabase[c]]
                     ELSE [Keep(c) EXCEPT
                             !.run = "local", !.db = currentDatabase[c],
                             !.files = files \cup {currentDatabase[c]},
                             !.databases = databases \cup {currentDatabase[c]}]

\* #handleDropDatabase(socket, payload, context)
HandleDropDatabase(c, payload) ==
    IF payload.database = NoDb
    THEN SendError(c, "Database name required")
    ELSE IF payload.database \notin files
         THEN SendError(c, "does not exist")
         ELSE [SendResponse(c, "drop_success", "has been burned (dropped)")
                  EXCEPT !.databases = databases \ {payload.database},
                         !.files = files \ {payload.database},
                         !.currentDatabase =
                             IF currentDatabase[c] = payload.database THEN NoDb
                             ELSE currentDatabase[c]]

\* #handleRequest(socket, request, context) (HandleRequestGateOnQuery: the
\* same with the authentication test applied to query requests only)
HandleRequestGateOnQuery(c, request) ==
    IF auth /\ ~authenticated[c] /\ request.type = "query"
    THEN SendError(c, "Authentication required")
    ELSE CASE request.type = "auth" -> HandleAuth(c, request.payload)
           [] request.type = "use" -> HandleUseDatabase(c, request.payload)
           [] request.type = "query" -> HandleQuery(c, request.payload)
           [] request.type = "ping" -> SendResponse(c, "pong", None)
           [] request.type = "list_databases" -> SendResponse(c, "database_list", None)
           [] request.type = "drop_database" -> HandleDropDatabase(c, request.payload)
           [] request.type = "stats" -> SendResponse(c, "stats", None)
           [] OTHER -> SendError(c, "Unknown request type")
HandleRequest(c, request) ==
    IF auth /\ ~authenticated[c] /\ request.type # "auth"
    THEN SendError(c, "Authentication required")
    ELSE CASE request.type = "auth" -> HandleAuth(c, request.payload)
           [] request.type = "use" -> HandleUseDatabase(c, request.payload)
           [] request.type = "query" -> HandleQuery(c, request.payload)
           [] request.type = "ping" -> SendResponse(c, "pong", None)
           [] request.type = "list_databases" -> SendResponse(c, "database_list", None)
           [] request.type = "drop_database" -> HandleDropDatabase(c, request.payload)
           [] request.type = "stats" -> SendResponse(c, "stats", None)
           [] OTHER -> SendError(c, "Unknown request type")

\* ---- the frames a client sends ----
AuthPayloads ==
    {[username |-> "admin", password |-> <<"s", "3">>],
     [username |-> "admin", password |-> <<"x">>],
     [username |-> "admin", password |-> <<"s", "3", NUL>>],
     [username |-> "guest", password |-> <<"s", "3">>]}
NamePayloads == {[database |-> n] : n \in DbNames \cup {NoDb}}
Queries ==
    {[verb |-> v, arg |-> n] :
        v \in {"BUKA WILAYAH", "MASUK WILAYAH", "BAKAR WILAYAH"}, n \in DbNames}
    \cup {[verb |-> v, arg |-> NameD1] : v \in {"CREATE DATABASE", "USE", "DROP DATABASE"}}
    \cup {[verb |-> "BUKA WILAYAH", arg |-> NoDb]}
    \cup {[verb |-> v, arg |-> NoDb] : v \in {"LIHAT WILAYAH", "SHOW DATABASES", "STATEMENT"}}
Requests ==
    {[type |-> "auth", payload |-> p] : p \in AuthPayloads}
    \cup {[type |-> t, payload |-> p] : t \in {"use", "drop_database"}, p \in NamePayloads}
    \cup {[type |-> "query", payload |-> [query |-> q]] : q \in Queries}
    \cup {[type |-> t, payload |-> None] : t \in {"ping", "list_databases", "stats", "bogus"}}

\* frames taken from the buffers of all connections
TotalReceived == nReceived[1] + nReceived[2]

\* the main thread is between two events: no handler on the stack, no microtask left
MainIdle == inLoop = 0 /\ jobs = <<>>

\* socket.write of one response frame for request number req of connection c
WriteFrame(c, req, type, msg) ==
    /\ lastResp' = [lastResp EXCEPT ![c] = [req |-> req, type |-> type, msg |-> msg]]
    /\ nSent' = [nSent EXCEPT ![c] = @ + 1]

\* The data handler of #handleConnection, one turn of its while loop: a complete
\* frame is cut from the buffer, parsed and handed to #handleRequest, which
\* returns at the first await of #handleQuery. `more` says whether the same chunk
\* holds another complete frame, so that the loop goes round again before the
\* handler returns to the event loop.
OnData(c, request, more) ==
    /\ inLoop = c \/ MainIdle
    /\ TotalReceived < MaxFrames
    /\ more => TotalReceived + 1 < MaxFrames
    /\ LET idx == nReceived[c] + 1
           o == HandleRequest(c, request)
       IN  /\ nReceived' = [nReceived EXCEPT ![c] = idx]
           /\ inLoop' = IF more THEN c ELSE 0
           /\ files' = o.files
           /\ databases' = o.databases
           /\ authenticated' = [authenticated EXCEPT ![c] = o.authenticated]
           /\ currentDatabase' = [currentDatabase EXCEPT ![c] = o.currentDatabase]
           /\ IF o.type # None
              THEN WriteFrame(c, idx, o.type, o.msg)
              ELSE UNCHANGED <<lastResp, nSent>>
           /\ CASE o.run = "local" ->
                     \* db.query(query, params) runs to its end; the await of its
                     \* (already resolved) result queues the rest of #handleQuery
                     /\ engineRuns' = engineRuns + 1
                     /\ jobs' = Append(jobs, [conn |-> c, req |-> idx,
                                              type |-> "query_result", msg |-> None])
                     /\ UNCHANGED <<poolVars, awaiting>>
                [] o.run = "pool" ->
                     \* threadPool.execute(dbPath, query, walConfig), awaited
                     /\ Execute(o.db)
                     /\ awaiting' = [i \in DOMAIN awaiting \cup {requestIdCounter + 1} |->
                                        IF i = requestIdCounter + 1
                                        THEN [conn |-> c, req |-> idx]
                                        ELSE awaiting[i]]
                     /\ UNCHANGED <<jobs, engineRuns>>
                [] OTHER -> UNCHANGED <<poolVars, awaiting, jobs, engineRuns>>
    /\ UNCHANGED <<auth, threadPool>>

\* frames that are not a request with its payload: text that JSON.parse
\* rejects, and requests of the types that read their payload, sent without one
PayloadTypes == {"auth", "use", "drop_database", "query"}
BadFrames ==
    {[json |-> FALSE, type |-> None]}
        \cup {[json |-> TRUE, type |-> t] : t \in PayloadTypes}

\* what the data handler writes for such a frame.  JSON.parse throws inside
\* the try block and the catch block sends the error frame.  The handlers of
\* auth, use and drop_database throw a TypeError when they destructure the
\* undefined payload, inside the same try block.  #handleQuery is an async
\* function: the TypeError of its first line rejects the promise it returns,
\* which #handleRequest drops, so the catch block is not reached and no frame
\* is written (the rejection is unhandled).
BadFrameResponse(c, frame) ==
    IF ~frame.json THEN "Invalid request format"
    ELSE IF auth /\ ~authenticated[c] /\ frame.type # "auth" THEN "Authentication required"
    ELSE IF frame.type = "query" THEN None
    ELSE "Invalid request format"

\* The data handler of #handleConnection, one turn of its while loop, on a
\* frame of BadFrames
OnBadFrame(c, frame, more) ==
    /\ inLoop = c \/ MainIdle
    /\ TotalReceived < MaxFrames
    /\ more => TotalReceived + 1 < MaxFrames
    /\ nReceived' = [nReceived EXCEPT ![c] = @ + 1]
    /\ inLoop' = IF more THEN c ELSE 0
    /\ IF BadFrameResponse(c, frame) # None
       THEN WriteFrame(c, nReceived[c] + 1, "error", BadFrameResponse(c, frame))
       ELSE UNCHANGED <<lastResp, nSent>>
    /\ UNCHANGED <<poolVars, auth, threadPool, files, databases, authenticated,
                   currentDatabase, jobs, awaiting, engineRuns>>

\* The rest of #handleQuery after its await, run from the microtask queue once
\* the running handler has returned: the query_result frame, or the error frame
\* of its catch block.
RunJob ==
    /\ inLoop = 0
    /\ jobs # <<>>
    /\ WriteFrame(Head(jobs).conn, Head(jobs).req, Head(jobs).type, Head(jobs).msg)
    /\ jobs' = Tail(jobs)
    /\ UNCHANGED <<poolVars, auth, threadPool, files, databases, authenticated,
                   currentDatabase, nReceived, inLoop, awaiting, engineRuns>>

\* The #handleQuery calls whose awaited promise is settled for the ids `ids`, in
\* the order of the ids, as microtasks.
RECURSIVE JobsFor(_, _, _)
JobsFor(ids, type, msg) ==
    IF ids = {} THEN <<>>
    ELSE LET id == CHOOSE i \in ids : \A k \in ids : i <= k
         IN  <<[conn |-> awaiting[id].conn, req |-> awaiting[id].req,
                type |-> type, msg |-> msg]>>
             \o JobsFor(ids \ {id}, type, msg)

\* the promises of `ids` are settled: their awaiters are queued and forgotten
Settle(ids, type, msg) ==
    /\ jobs' = jobs \o JobsFor(ids, type, msg)
    /\ awaiting' = [i \in DOMAIN awaiting \ ids |-> awaiting[i]]

\* a worker thread of the pool handles a task; opening the engine creates a
\* missing database file
ServerWorkerQuery(w, throws) ==
    /\ WorkerQuery(w, throws)
    /\ files' = IF throws THEN files ELSE files \cup {Head(inbox[w]).dbPath}
    /\ UNCHANGED <<auth, threadPool, databases, authenticated, currentDatabase,
                   nReceived, nSent, lastResp, inLoop, jobs, awaiting,
                   engineRuns>>

\* the 'message' event of a worker on the main thread
ServerHandleMessage(w) ==
    /\ MainIdle
    /\ HandleMessage(w)
    /\ LET msg == Head(outbox[w])
       IN  IF msg.id \in DOMAIN pendingRequests
           THEN IF msg.status = "ok"
                THEN Settle({msg.id}, "query_result", None)
                ELSE Settle({msg.id}, "error", "Query error")
           ELSE UNCHANGED <<jobs, awaiting>>
    /\ UNCHANGED <<auth, threadPool, files, databases, authenticated, currentDatabase,
                   nReceived, nSent, lastResp, inLoop, engineRuns>>

\* the deadline of a dispatched query on the main thread
ServerTimeout(id) ==
    /\ MainIdle
    /\ Timeout(id)
    /\ Settle({id}, "error", "Query error")
    /\ UNCHANGED <<auth, threadPool, files, databases, authenticated, currentDatabase,
                   nReceived, nSent, lastResp, inLoop, engineRuns>>

\* the 'exit' event of a crashed worker on the main thread
ServerWorkerCrash(w) ==
    /\ MainIdle
    /\ WorkerCrash(w)
    /\ Settle(CleanupIds(w), "error", "Query error")
    /\ UNCHANGED <<auth, threadPool, files, databases, authenticated, currentDatabase,
                   nReceived, nSent, lastResp, inLoop, engineRuns>>

\* A started server with two connected clients (the welcome frame written to
\* each): authentication configured or not, queries run by the front-end's own
\* engines or by the pool, no database in the data directory and one database
\* file next to it.
InitServer ==
    /\ isReady = TRUE
    /\ activeTasks = [w \in Workers |-> 0]
    /\ workerStats = [w \in Workers |-> 0]
    /\ pendingRequests = [i \in {} |-> None]
    /\ requestIdCounter = 0
    /\ settled = [i \in {} |-> None]
    /\ inbox = [w \in Workers |-> <<>>]
    /\ outbox = [w \in Workers |-> <<>>]
    /\ dbCache = [w \in Workers |-> {}]
    /\ auth \in BOOLEAN
    /\ threadPool \in BOOLEAN
    /\ files = {NameEsc}
    /\ databases = {}
    /\ authenticated = [c \in Conns |-> ~auth]
    /\ currentDatabase = [c \in Conns |-> NoDb]
    /\ nReceived = [c \in Conns |-> 0]
    /\ nSent = [c \in Conns |-> 0]
    /\ lastResp = [c \in Conns |-> [req |-> 0, type |-> "welcome", msg |-> None]]
    /\ inLoop = 0
    /\ jobs = <<>>
    /\ awaiting = [i \in {} |-> None]
    /\ engineRuns = 0
    /\ TxnAtRest
    /\ WalAtRest
    /\ IdxAtRest /\ PagesAtRest /\ FrontAtRest

NextServer ==
    \/ \E c \in Conns, request \in Requests, more \in BOOLEAN :
          OnData(c, request, more) /\ UNCHANGED <<txnVars, walVars, idxVars, pageVars, frontVars>>
    \/ \E c \in Conns, frame \in BadFrames, more \in BOOLEAN :
          OnBadFrame(c, frame, more) /\ UNCHANGED <<txnVars, walVars, idxVars, pageVars, frontVars>>
    \/ RunJob /\ UNCHANGED <<txnVars, walVars, idxVars, pageVars, frontVars>>
    \/ \E w \in Workers, throws \in BOOLEAN :
          ServerWorkerQuery(w, throws) /\ UNCHANGED <<txnVars, walVars, idxVars, pageVars, frontVars>>
    \/ \E w \in Workers : ServerHandleMessage(w) /\ UNCHANGED <<txnVars, walVars, idxVars, pageVars, frontVars>>
    \/ \E id \in RequestIds : ServerTimeout(id) /\ UNCHANGED <<txnVars, walVars, idxVars, pageVars, frontVars>>
    \/ \E w \in Workers : ServerWorkerCrash(w) /\ UNCHANGED <<txnVars, walVars, idxVars, pageVars, frontVars>>

SpecServer == InitServer /\ [][NextServer]_vars

\* The front-end at rest: the state the server variables keep while another
\* subsystem is explored on its own.
ServerAtRest ==
    /\ auth = FALSE
    /\ threadPool = FALSE
    /\ files = {}
    /\ databases = {}
    /\ authenticated = [c \in Conns |-> TRUE]
    /\ currentDatabase = [c \in Conns |-> NoDb]
    /\ nReceived = [c \in Conns |-> 0]
    /\ nSent = [c \in Conns |-> 0]
    /\ lastResp = [c \in Conns |-> [req |-> 0, type |-> "welcome", msg |-> None]]
    /\ inLoop = 0
    /\ jobs = <<>>
    /\ awaiting = [i \in {} |-> None]
    /\ engineRuns = 0

InitPoolSpec == InitPool /\ ServerAtRest /\ TxnAtRest /\ WalAtRest /\ IdxAtRest /\ PagesAtRest /\ FrontAtRest

\* what the pool leaves alone
outsidePool == <<serverVars, txnVars, walVars, idxVars, pageVars, frontVars>>

NextPool ==
    \/ \E p \in Paths : Execute(p) /\ UNCHANGED outsidePool
    \/ \E w \in Workers, throws \in BOOLEAN : WorkerQuery(w, throws) /\ UNCHANGED outsidePool
    \/ \E w \in Workers : HandleMessage(w) /\ UNCHANGED outsidePool
    \/ \E id \in RequestIds : Timeout(id) /\ UNCHANGED outsidePool
    \/ \E w \in Workers : WorkerCrash(w) /\ UNCHANGED outsidePool

SpecPool == InitPoolSpec /\ [][NextPool]_vars

\* the timer that execute arms with setTimeout runs its callback unless
\* clearTimeout was called for it: while some timer is due, the event loop of
\* the main thread runs the callback of one of them
SpecPoolTimers ==
    /\ SpecPool
    /\ WF_vars(\E id \in RequestIds : Timeout(id) /\ UNCHANGED outsidePool)

(***************************************************************************)
(* Statements and transactions on one database, two connections            *)
(***************************************************************************)

\* The front-end with two authenticated connections that have both selected
\* database d1 (`use` answered with use_success), queries run by the
\* front-end's own engine.
ServerInSession ==
    /\ auth = FALSE
    /\ threadPool = FALSE
    /\ files = {NameD1}
    /\ databases = {NameD1}
    /\ authenticated = [c \in Conns |-> TRUE]
    /\ currentDatabase = [c \in Conns |-> NameD1]
    /\ nReceived = [c \in Conns |-> 1]
    /\ nSent = [c \in Conns |-> 1]
    /\ lastResp = [c \in Conns |->
                     [req |-> 1, type |-> "use_success", msg |-> "Switched to database"]]
    /\ inLoop = 0
    /\ jobs = <<>>
    /\ awaiting = [i \in {} |-> None]
    /\ engineRuns = 0

InitTxn == InitPool /\ ServerInSession /\ TxnAtRest /\ WalAtRest /\ IdxAtRest /\ PagesAtRest /\ FrontAtRest

NextTxn == \E c \in Conns, cmd \in Commands : TxnQuery(c, cmd) /\ UNCHANGED <<walVars, idxVars, pageVars, frontVars>>

SpecTxn == InitTxn /\ [][NextTxn]_vars

(***************************************************************************)
(* One database file through statements, crashes and reopens               *)
(***************************************************************************)

InitWal ==
    /\ InitPool /\ ServerAtRest /\ TxnAtRest /\ IdxAtRest /\ PagesAtRest /\ FrontAtRest
    /\ walOpt \in {"absent", "disabled", "enabled"}
    /\ WalFresh

\* what the storage leaves alone
outsideWal == <<poolVars, serverVars, txnVars, idxVars, pageVars, frontVars>>

NextWal ==
    \/ Open /\ UNCHANGED outsideWal
    \/ Close /\ UNCHANGED outsideWal
    \/ \E ps \in PageLists : BeginStatement(ps) /\ UNCHANGED outsideWal
    \/ WalAppend /\ UNCHANGED outsideWal
    \/ WalFlush /\ UNCHANGED outsideWal
    \/ \E batched \in BOOLEAN : PageWrite(batched) /\ UNCHANGED outsideWal
    \/ StatementEnd /\ UNCHANGED outsideWal
    \/ \E p \in Pages : PagerFlush(p) /\ UNCHANGED outsideWal
    \/ Crash /\ UNCHANGED outsideWal

SpecWal == InitWal /\ [][NextWal]_vars

(***************************************************************************)
(* One table with its index through statements, close and reopen           *)
(***************************************************************************)

InitIndex == InitPool /\ ServerAtRest /\ TxnAtRest /\ WalAtRest /\ IdxAtRest /\ PagesAtRest /\ FrontAtRest

\* what the index statements leave alone
outsideIndex == <<poolVars, serverVars, txnVars, walVars, pageVars, frontVars>>

NextIndex ==
    \/ \E row \in TableRowSet : IndexedInsert(row) /\ UNCHANGED outsideIndex
    \/ \E id \in RowIds : IndexedDelete(id) /\ UNCHANGED outsideIndex
    \/ \E id \in RowIds, v \in FieldValues : IndexedUpdate(id, v) /\ UNCHANGED outsideIndex
    \/ IndexCreate /\ UNCHANGED outsideIndex
    \/ EngineClose /\ UNCHANGED outsideIndex
    \/ EngineReopen /\ UNCHANGED outsideIndex

SpecIndex == InitIndex /\ [][NextIndex]_vars

(***************************************************************************)
(* The pages of one table through INSERT statements                        *)
(***************************************************************************)

InitPages == InitPool /\ ServerAtRest /\ TxnAtRest /\ WalAtRest /\ IdxAtRest /\ PagesAtRest /\ FrontAtRest

NextPages ==
    \E dataArray \in Batches :
        InsertMany(dataArray)
            /\ UNCHANGED <<poolVars, serverVars, txnVars, walVars, idxVars, frontVars>>

SpecPages == InitPages /\ [][NextPages]_vars

(***************************************************************************)
(* One call of QueryParser.parse on each statement                         *)
(***************************************************************************)

InitParser ==
    /\ InitPool /\ ServerAtRest /\ TxnAtRest /\ WalAtRest /\ IdxAtRest /\ PagesAtRest
    /\ parserInput \in Statements
    /\ parserOutput = NotParsed
    /\ QueryAtRest /\ InsertAtRest /\ ScanAtRest /\ ProcAtRest /\ BatchAtRest
    /\ ConnAtRest /\ OpenAtRest

NextParser ==
    CallParse /\ UNCHANGED <<poolVars, serverVars, txnVars, walVars, idxVars, pageVars, queryVars, insertVars, scanVars, procVars, batchVars, connVars, openVars>>

SpecParser == InitParser /\ [][NextParser]_vars

(***************************************************************************)
(* Query requests on one database, executed locally or by the pool         *)
(***************************************************************************)

InitQuery ==
    /\ InitPool /\ ServerAtRest /\ TxnAtRest /\ WalAtRest /\ IdxAtRest /\ PagesAtRest
    /\ ParseAtRest /\ InsertAtRest /\ ScanAtRest /\ ProcAtRest /\ BatchAtRest
    /\ ConnAtRest /\ OpenAtRest
    /\ queryCache = <<>>
    /\ nextObject = 0
    /\ calls = <<>>
    /\ viaPool \in BOOLEAN

NextQuery ==
    \E query \in QueryStrings, params \in ParamSets :
        HandleQueryRequest(query, params)
            /\ UNCHANGED <<poolVars, serverVars, txnVars, walVars, idxVars, pageVars, parseVars, insertVars, scanVars, procVars, batchVars, connVars, openVars>>

SpecQuery == InitQuery /\ [][NextQuery]_vars

(***************************************************************************)
(* Schema, trigger and INSERT statements on one table                      *)
(***************************************************************************)

InitInsert ==
    /\ InitPool /\ ServerAtRest /\ TxnAtRest /\ WalAtRest /\ IdxAtRest /\ PagesAtRest
    /\ FrontAtRest

\* what the statements on t leave alone
outsideInsert ==
    <<poolVars, serverVars, txnVars, walVars, idxVars, pageVars, parseVars, queryVars,
      scanVars, procVars, batchVars, connVars, openVars>>

NextInsert ==
    \/ \E queryString \in SchemaStatements :
          DefineSchema(queryString) /\ UNCHANGED outsideInsert
    \/ \E queryString \in TriggerStatements :
          CreateTrigger(queryString) /\ UNCHANGED outsideInsert
    \/ \E queryString \in InsertStatements :
          InsertStatement(queryString) /\ UNCHANGED outsideInsert

SpecInsert == InitInsert /\ [][NextInsert]_vars

(***************************************************************************)
(* One scan or SELECT over the rows of a table                             *)
(***************************************************************************)

InitScan ==
    /\ InitPool /\ ServerAtRest /\ TxnAtRest /\ WalAtRest /\ IdxAtRest /\ PagesAtRest
    /\ ParseAtRest /\ QueryAtRest /\ InsertAtRest /\ ProcAtRest /\ BatchAtRest
    /\ ConnAtRest /\ OpenAtRest
    /\ scanInput \in LimitCalls \cup LikeCalls
    /\ scanOutput = NotScanned

outsideScan ==
    <<poolVars, serverVars, txnVars, walVars, idxVars, pageVars, parseVars, queryVars,
      insertVars, procVars, batchVars, connVars, openVars>>

NextScan ==
    \/ CallScanTable /\ UNCHANGED outsideScan
    \/ CallSelect /\ UNCHANGED outsideScan

SpecScan == InitScan /\ [][NextScan]_vars

\* ---- the stored procedures of one engine, on table t without schema or trigger ----
InitProcedure ==
    /\ InitPool /\ ServerAtRest /\ TxnAtRest /\ WalAtRest /\ IdxAtRest /\ PagesAtRest
    /\ FrontAtRest

outsideProcedure ==
    <<poolVars, serverVars, txnVars, walVars, idxVars, pageVars, parseVars, queryVars,
      scanVars, batchVars, connVars, openVars>>

NextProcedure ==
    \/ \E queryString \in ProcedureStatements :
          CreateProcedure(queryString) /\ UNCHANGED outsideProcedure
    \/ \E queryString \in CallStatements :
          ExecuteProcedure(queryString) /\ UNCHANGED outsideProcedure

SpecProcedure == InitProcedure /\ [][NextProcedure]_vars

\* ---- batches of rows for table t, with schemas and triggers that return ----
InitBatch ==
    /\ InitPool /\ ServerAtRest /\ TxnAtRest /\ WalAtRest /\ IdxAtRest /\ PagesAtRest
    /\ FrontAtRest

outsideBatch ==
    <<poolVars, serverVars, txnVars, walVars, idxVars, pageVars, parseVars, queryVars,
      scanVars, procVars, connVars, openVars>>

NextBatch ==
    \/ \E queryString \in SchemaStatements :
          DefineSchema(queryString) /\ UNCHANGED <<outsideBatch, batchVars>>
    \/ \E queryString \in BatchTriggerStatements :
          CreateTrigger(queryString) /\ UNCHANGED <<outsideBatch, batchVars>>
    \/ \E dataArray \in BatchesOf(MaxTableRows) :
          InsertBatch(dataArray) /\ UNCHANGED outsideBatch

SpecBatch == InitBatch /\ [][NextBatch]_vars

\* ---- the sockets of a server with room for MaxConnections clients ----
InitConnections ==
    /\ InitPool /\ ServerAtRest /\ TxnAtRest /\ WalAtRest /\ IdxAtRest /\ PagesAtRest
    /\ FrontAtRest

outsideConnections ==
    <<poolVars, serverVars, txnVars, walVars, idxVars, pageVars, parseVars, queryVars,
      insertVars, scanVars, procVars, batchVars, openVars>>

NextConnections ==
    \/ \E s \in Sockets : Connect(s) /\ UNCHANGED outsideConnections
    \/ \E s \in Sockets, length \in ChunkLengths, complete \in BOOLEAN :
          SocketData(s, length, complete) /\ UNCHANGED outsideConnections
    \/ \E s \in Sockets : SocketEnd(s) /\ UNCHANGED outsideConnections
    \/ \E s \in Sockets : SocketError(s) /\ UNCHANGED outsideConnections
    \/ \E s \in Sockets : SocketTimeout(s) /\ UNCHANGED outsideConnections

SpecConnections == InitConnections /\ [][NextConnections]_vars

\* ---- the engines opened for two databases by a server with a thread pool ----
InitOpen ==
    /\ InitPool /\ ServerAtRest /\ TxnAtRest /\ WalAtRest /\ IdxAtRest /\ PagesAtRest
    /\ ParseAtRest /\ QueryAtRest /\ InsertAtRest /\ ScanAtRest /\ ProcAtRest
    /\ BatchAtRest /\ ConnAtRest
    /\ serverConfig \in ServerConfigs
    /\ localEngines = <<>>
    /\ workerEngines = [w \in Workers |-> <<>>]

outsideOpen ==
    <<poolVars, serverVars, txnVars, walVars, idxVars, pageVars, parseVars, queryVars,
      insertVars, scanVars, procVars, batchVars, connVars>>

NextOpen ==
    \/ \E name \in DbNames : GetOrCreateDatabase(name) /\ UNCHANGED outsideOpen
    \/ \E w \in Workers, name \in DbNames : WorkerOpen(w, name) /\ UNCHANGED outsideOpen
    \/ \E name \in DbNames : CloseLocal(name) /\ UNCHANGED outsideOpen

SpecOpen == InitOpen /\ [][NextOpen]_vars

(***************************************************************************)
(* Claims about the worker pool                                            *)
(***************************************************************************)

\* C3: once a worker holds the open handle of a database path, every later
\* ThreadPool.execute for that path is dispatched to that worker. A step that
\* dispatches (the request counter moves) posts its task to the worker that
\* has the task's path in its dbCache, whenever some worker has.
C3_StickyDispatch ==
    [][requestIdCounter' # requestIdCounter =>
          LET workerIndex == pendingRequests'[requestIdCounter'].workerIndex
              task == inbox'[workerIndex][Len(inbox'[workerIndex])]
          IN  \A w \in Workers : task.dbPath \in dbCache[w] => workerIndex = w]_vars

\* C4: in every reachable state a database file is open in at most one worker.
C4_OneOwnerPerFile ==
    \A p \in Paths : Cardinality({w \in Workers : p \in dbCache[w]}) <= 1

(***************************************************************************)
(* Claims about transactions                                               *)
(***************************************************************************)

CommitCmd == [type |-> "COMMIT", table |-> None]
RollbackCmd == [type |-> "ROLLBACK", table |-> None]

\* C5: transaction state is per connection. While the transaction begun by
\* one connection is active, an INSERT, UPDATE or DELETE of another connection
\* on the same database is not added to the buffer, and a COMMIT or ROLLBACK
\* of another connection leaves the buffer, the tables and the transaction as
\* they are.
C5_TransactionPerConnection ==
    [][\A c \in Conns, cmd \in Commands :
          (db.active /\ txOwner # c /\ TxnQuery(c, cmd)) =>
             /\ cmd.type \in Dml => db'.buffer = db.buffer
             /\ cmd.type \in {"COMMIT", "ROLLBACK"} =>
                   /\ db'.buffer = db.buffer
                   /\ Stored(db') = Stored(db)
                   /\ db'.active]_vars

ReadWriteCommands == {cmd \in Commands : cmd.type \in Dml \cup {"SELECT"}}

\* what a SELECT returned on the catalog and rows of the BEGIN
SnapshotSelect(cmd) ==
    IF cmd.table \in snapshot.tables
    THEN [status |-> "rows", rows |-> snapshot.rows[cmd.table], n |-> 0]
    ELSE [status |-> "error", rows |-> <<>>, n |-> 0]

C8_CommitAtomic ==
    [][\A c \in Conns :
          (db.active /\ TxnQuery(c, CommitCmd)) =>
             LET r == Replay(db, db.buffer)
             IN  /\ \/ r.ok /\ Stored(db') = Stored(r.db)
                    \/ ~r.ok /\ Stored(db') = Stored(db)
                 /\ ~db'.active
                 /\ db'.buffer = <<>>]_vars

(***************************************************************************)
(* Claims about the write-ahead log                                        *)
(***************************************************************************)

C9_ResponsesInRequestOrder ==
    [][\A c \in Conns :
          nSent'[c] # nSent[c] => lastResp'[c].req > lastResp[c].req]_vars

\* a string without its trailing NUL characters
RECURSIVE StripNul(_)
StripNul(str) ==
    IF str # <<>> /\ str[Len(str)] = NUL
    THEN StripNul(SubSeq(str, 1, Len(str) - 1))
    ELSE str

\* the credentials of an auth payload are those of a configured user, trailing
\* NUL characters of the password aside
GoodCredentials(payload) ==
    /\ payload.username \in DOMAIN AuthTable
    /\ StripNul(payload.password) = StripNul(AuthTable[payload.username])

\* C10: with authentication configured, on a connection without a successful
\* auth, a request of any other type is answered with the error
\* "Authentication required" and changes nothing else (no statement run or
\* dispatched, no database opened, created or dropped, the session as it was),
\* and an auth is answered with auth_success and authenticates the connection
\* when its credentials are good, and is answered with an error and leaves
\* the connection unauthenticated when they are not.
C10_AuthenticationRequired ==
    [][\A c \in Conns :
          (auth /\ ~authenticated[c] /\ nReceived'[c] # nReceived[c]) =>
             \A request \in Requests, more \in BOOLEAN :
                OnData(c, request, more) =>
                   IF request.type # "auth"
                   THEN /\ lastResp'[c] = [req |-> nReceived'[c], type |-> "error",
                                           msg |-> "Authentication required"]
                        /\ nSent'[c] = nSent[c] + 1
                        /\ UNCHANGED <<files, databases, authenticated, currentDatabase,
                                       engineRuns, jobs, awaiting, poolVars>>
                   ELSE /\ lastResp'[c].req = nReceived'[c]
                        /\ lastResp'[c].type =
                              IF GoodCredentials(request.payload)
                              THEN "auth_success" ELSE "error"
                        /\ authenticated'[c] = GoodCredentials(request.payload)]_vars

\* C10 witness: an unauthenticated connection has been refused a request, and
\* nothing exists that a request could have created.
C10_Witness ==
    \E c \in Conns :
        /\ auth /\ ~authenticated[c]
        /\ nReceived[c] >= 2
        /\ lastResp[c].msg = "Authentication required"
        /\ files = {NameEsc} /\ databases = {} /\ engineRuns = 0

\* the database name a request carries: payload.database of a use or
\* drop_database request, the word after the verb of a database statement
RequestedName(request) ==
    CASE request.type \in {"use", "drop_database"} -> request.payload.database
      [] request.type = "query" -> request.payload.query.arg
      [] OTHER -> NoDb

\* the requests that carry a name outside /^[a-zA-Z0-9_-]+$/
BadNameRequests ==
    {r \in Requests : RequestedName(r) # NoDb /\ ~ValidName(RequestedName(r))}

\* C11: a request or database statement that carries a database name not
\* matching ^[A-Za-z0-9_-]+$ is answered with an error and leaves the files,
\* the open databases and the connection's current database as they were.
C11_InvalidNameRejected ==
    [][\A c \in Conns :
          nReceived'[c] # nReceived[c] =>
             \A request \in BadNameRequests, more \in BOOLEAN :
                OnData(c, request, more) =>
                   /\ lastResp'[c].type = "error"
                   /\ UNCHANGED <<files, databases, currentDatabase>>]_vars


(***************************************************************************)
(* Claims about the index                                                  *)
(***************************************************************************)

\* C12: when the database is reopened after an index was created, then before
\* the first statement the index exists in memory and holds an entry for
\* every row of its table that has the indexed field.
C12_IndexRebuiltOnOpen ==
    [][(~engineOpen /\ engineOpen' /\ indexRecords' # <<>>) =>
          /\ IndexKey \in DOMAIN indexes'
          /\ \A i \in 1 .. Len(tableRows') :
                HasField(tableRows'[i]) =>
                   BagIn(<<tableRows'[i].f, tableRows'[i]>>, indexes'[IndexKey])]_vars

\* C13: after every statement the entries of each in-memory index are, as a
\* multiset of (key, row), the rows of its table that have the indexed field,
\* each filed under its value.
C13_IndexMatchesTable ==
    engineOpen => \A k \in DOMAIN indexes : indexes[k] = BuildIndex(tableRows)

\* C14: whenever the index exists, SELECT * WHERE f = v answered from the
\* index returns the same rows as the full scan of the table, for every v.
C14_IndexSelectEqualsScan ==
    (engineOpen /\ IndexKey \in DOMAIN indexes) =>
       \A v \in FieldValues : IndexEqual(indexes[IndexKey], v) = ScanEqual(tableRows, v)

\* C15: whenever the database is open, the system table _indexes holds one
\* record for each in-memory index and no other record.
C15_CatalogListsIndexes ==
    engineOpen =>
       /\ \A i \in 1 .. Len(indexRecords) :
             indexRecords[i] = IndexRecord /\ IndexKey \in DOMAIN indexes
       /\ Len(indexRecords) = Cardinality(DOMAIN indexes)

(***************************************************************************)
(* Claims about the pages of a table                                       *)
(***************************************************************************)

\* C16: as long as every INSERT has returned normally, the full scan of the
\* table returns exactly the inserted rows, each equal to the row inserted,
\* and so the select by a value that one row holds returns that row.
C16_ScanReturnsInserted ==
    ~insertFailed => ScanTable(StartPage, Len(dataPages)) = inserted

\* C17: after any INSERTs, failed ones included, the page chain from
\* startPage ends in a page whose next pointer is 0, and the lastPage of the
\* catalog entry is that page.
C17_LastPageEndsChain ==
    /\ dataPages[ChainEnd(StartPage, Len(dataPages))].next = 0
    /\ lastPage = ChainEnd(StartPage, Len(dataPages))

\* C18: after any INSERT every page has its free offset within [8, 4096] and
\* a count equal to the number of its records, and every record is stored
\* whole in its page.
C18_RecordsFitPages ==
    \A p \in 1 .. Len(dataPages) :
        /\ dataPages[p].freeOffset >= HeaderSize
        /\ dataPages[p].freeOffset <= PAGE_SIZE
        /\ dataPages[p].count = Len(dataPages[p].items)
        /\ \A i \in 1 .. Len(dataPages[p].items) :
              dataPages[p].items[i].stored = dataPages[p].items[i].len

(***************************************************************************)
(* Claims about the worker pool: crash and timeout                         *)
(***************************************************************************)

\* C19: when worker w crashes, every pending request assigned to w is
\* rejected with the worker-crashed error and leaves the pending table, the
\* pending requests of the other workers stay pending as they were, and slot
\* w holds a new worker: no task waiting, no database open, no load counted,
\* ready for the next dispatch.
C19_CrashRejectsOwnRequests ==
    [][\A w \in Workers :
          WorkerCrash(w) =>
             /\ \A i \in DOMAIN pendingRequests :
                   IF pendingRequests[i].workerIndex = w
                   THEN i \notin DOMAIN pendingRequests' /\ settled'[i] = "rejected_crash"
                   ELSE /\ i \in DOMAIN pendingRequests'
                        /\ pendingRequests'[i] = pendingRequests[i]
                        /\ settled'[i] = settled[i]
             /\ inbox'[w] = <<>> /\ dbCache'[w] = {} /\ activeTasks'[w] = 0
             /\ isReady']_vars

\* C19 witness: worker 0 crashed with request 1 pending, and request 2, sent
\* to the new worker of slot 0 afterwards, was served (worker 1 never had a
\* task).
C19_Witness ==
    /\ requestIdCounter >= 2
    /\ settled[1] = "rejected_crash"
    /\ settled[2] = "resolved"
    /\ workerStats[1] = 0

\* C20: when the timer of a pending request fires, its promise is rejected
\* with the timeout error and its id leaves the pending table, while the
\* worker's queue, replies and open databases are as before (the task is not
\* withdrawn); and when the reply for a timed-out id is handled, no promise
\* is settled and the pending table is unchanged.
C20_TimeoutRejectsLateReplyDropped ==
    [][/\ \A id \in RequestIds :
             Timeout(id) =>
                /\ id \notin DOMAIN pendingRequests'
                /\ settled'[id] = "rejected_timeout"
                /\ \A i \in DOMAIN settled \ {id} : settled'[i] = settled[i]
                /\ UNCHANGED <<inbox, outbox, dbCache>>
       /\ \A w \in Workers :
             (/\ outbox[w] # <<>>
              /\ settled[Head(outbox[w]).id] = "rejected_timeout"
              /\ HandleMessage(w)) =>
                UNCHANGED <<settled, pendingRequests>>]_vars

\* C20 witness: a request timed out, its worker went on and replied, and the
\* reply has been handled: nothing is pending or in flight, and the load of
\* the worker still counts the task.
C20_Witness ==
    /\ \E i \in DOMAIN settled : settled[i] = "rejected_timeout"
    /\ DOMAIN pendingRequests = {}
    /\ \A w \in Workers : inbox[w] = <<>> /\ outbox[w] = <<>>
    /\ \E w \in Workers : activeTasks[w] > 0 /\ dbCache[w] # {}

\* C21: execute dispatches to a worker whose active-task count is minimal
\* among all workers when it is called, and to the one of lowest index among
\* those: in a step that dispatches, no worker has a smaller count than the
\* chosen one and no worker of lower index has the same count.
C21_LeastBusyLowestIndex ==
    [][requestIdCounter' # requestIdCounter =>
          LET workerIndex == pendingRequests'[requestIdCounter'].workerIndex
          IN  /\ \A w \in Workers : activeTasks[workerIndex] <= activeTasks[w]
              /\ \A w \in Workers :
                    w < workerIndex => activeTasks[w] > activeTasks[workerIndex]
              /\ activeTasks'[workerIndex] = activeTasks[workerIndex] + 1]_vars

\* C21 witness: request 1 went to worker 0, request 2 to worker 1 (the less
\* busy one), request 3 to worker 0 again (a tie), all still pending.
C21_Witness ==
    /\ DOMAIN pendingRequests = {1, 2, 3}
    /\ pendingRequests[1].workerIndex = 0
    /\ pendingRequests[2].workerIndex = 1
    /\ pendingRequests[3].workerIndex = 0
    /\ activeTasks[0] = 2 /\ activeTasks[1] = 1

(***************************************************************************)
(* Claims about the parser                                                 *)
(***************************************************************************)

\* C23: QueryParser.parse returns a command record for every input string:
\* once the call has been made its result is a record that is neither an
\* exception on its way to the caller nor a call that never returns, and it
\* is {type: 'EMPTY'} when the string has no tokens.
C23_ParseReturnsCommandRecord ==
    parserOutput # NotParsed =>
        /\ parserOutput.type \notin {"THROW", "DIVERGES"}
        /\ Len(parserInput) = 0 => parserOutput.type = "EMPTY"

\* the rows the criteria are evaluated on
Rows == [{"a", "b"} -> {Val("number", "1"), Val("number", "2"), Val("string", "x")}]

\* a flat clause read with AND binding tighter than OR: the comparison at
\* token i joins the group of ANDs it stands in, and the clause holds when
\* some group holds
RECURSIVE AndBindsTighter(_, _, _, _)
AndBindsTighter(row, clause, i, group) ==
    LET holds == CheckMatch(row, Cond(At(clause, i), At(clause, i + 1),
                                      NormalizeValue(At(clause, i + 2))))
    IN  IF i + 3 >= Len(clause) THEN group /\ holds
        ELSE IF ToUpperCase(At(clause, i + 3)) \in {"AND", "DAN"}
        THEN AndBindsTighter(row, clause, i + 4, group /\ holds)
        ELSE (group /\ holds) \/ AndBindsTighter(row, clause, i + 4, TRUE)

\* C24: for a WHERE clause that is a flat sequence of simple comparisons joined
\* by AND/OR (or DAN/ATAU), the criteria tree built by parseWhere evaluates on
\* every row to the truth value of the clause read as an OR of maximal
\* AND-groups.
C24_AndBindsTighterThanOr ==
    (parserInput \in FlatWhereStatements /\ parserOutput # NotParsed) =>
        /\ parserOutput.type = "DELETE"
        /\ \A row \in Rows :
              CheckMatch(row, parserOutput.criteria)
                  = AndBindsTighter(row, Slice(parserInput, 4), 0, TRUE)

\* C24 witness: a OR b AND c has been parsed into an OR node whose second
\* condition is the AND node of b and c.
C24_Witness ==
    /\ parserInput = <<"DELETE", "FROM", "t", "WHERE", "a", "=", "1", "OR",
                       "b", "=", "'x'", "DAN", "a", "!=", "1.0">>
    /\ parserOutput # NotParsed
    /\ parserOutput.criteria.logic = "OR"
    /\ Len(parserOutput.criteria.conditions) = 2
    /\ parserOutput.criteria.conditions[2].type = "compound"
    /\ parserOutput.criteria.conditions[2].logic = "AND"

\* the tokens of a value list from token p up to the closing parenthesis
RECURSIVE WrittenList(_, _)
WrittenList(clause, p) ==
    IF At(clause, p) = ")" \/ p >= Len(clause) THEN <<>>
    ELSE IF At(clause, p) = "," THEN WrittenList(clause, p + 1)
    ELSE <<NormalizeValue(At(clause, p))>> \o WrittenList(clause, p + 1)

\* the index of the first ')' at or after token p
RECURSIVE Closing(_, _)
Closing(clause, p) == IF At(clause, p) = ")" \/ p >= Len(clause) THEN p ELSE Closing(clause, p + 1)

\* the comparison written at token i of a clause: the one node it stands for
\* and the token after it
WrittenComparison(clause, i) ==
    LET key == At(clause, i)
        op == ToUpperCase(At(clause, i + 1))
    IN  CASE op \in {"BETWEEN", "ANTARA"} ->
                 [node |-> Cond(key, "BETWEEN",
                                ArrayVal(<<NormalizeValue(At(clause, i + 2)),
                                           NormalizeValue(At(clause, i + 4))>>)),
                  next |-> i + 5]
          [] op = "IS" /\ ToUpperCase(At(clause, i + 2)) \in {"NULL", "KOSONG"} ->
                 [node |-> Cond(key, "IS NULL", NullVal), next |-> i + 3]
          [] op = "IS" /\ ToUpperCase(At(clause, i + 2)) \notin {"NULL", "KOSONG"} ->
                 [node |-> Cond(key, "IS NOT NULL", NullVal), next |-> i + 4]
          [] op \in {"IN", "DALAM"} ->
                 [node |-> Cond(key, "IN", ArrayVal(WrittenList(clause, i + 3))),
                  next |-> Closing(clause, i) + 1]
          [] op \in {"NOT", "TIDAK"} ->
                 [node |-> Cond(key, "NOT IN", ArrayVal(WrittenList(clause, i + 4))),
                  next |-> Closing(clause, i) + 1]
          [] OTHER ->
                 [node |-> Cond(key, op, NormalizeValue(At(clause, i + 2))), next |-> i + 3]

\* the comparisons written in a clause from token i on, one node each, in order
RECURSIVE WrittenNodes(_, _)
WrittenNodes(clause, i) ==
    IF i >= Len(clause) THEN <<>>
    ELSE LET written == WrittenComparison(clause, i)
         IN  <<written.node>> \o WrittenNodes(clause, written.next + 1)

\* the nodes of a criteria tree that are not compound nodes, left to right
RECURSIVE Leaves(_)
Leaves(criteria) ==
    IF criteria.type # "compound" THEN <<criteria>>
    ELSE IF Len(criteria.conditions) = 0 THEN <<>>
    ELSE Leaves(criteria.conditions[1])
             \o Leaves([criteria EXCEPT !.conditions = Tail(criteria.conditions)])

\* C25: for a WHERE clause with BETWEEN, IS NULL, IS NOT NULL, IN or NOT IN
\* comparisons, parseWhere produces exactly one condition node per comparison
\* written (BETWEEN a AND b one node with op BETWEEN and val [a, b], IS NULL one
\* node with op IS NULL) and the tree holds nothing but these nodes under its
\* AND/OR nodes.
C25_OneNodePerComparison ==
    (parserInput \in OperatorWhereStatements /\ parserOutput # NotParsed) =>
        /\ parserOutput.type = "DELETE"
        /\ Leaves(parserOutput.criteria) = WrittenNodes(Slice(parserInput, 4), 0)

\* C26: for every statement form of the dual-syntax table the English form and
\* the dialect form parse to identical command records: the record returned
\* for either form of a pair is the record parse returns for the other form.
C26_DualSyntaxSameCommand ==
    \A pair \in DualSyntax :
        /\ (parserInput = pair[1] /\ parserOutput # NotParsed)
              => parserOutput = Parse(pair[2], NoParams)
        /\ (parserInput = pair[2] /\ parserOutput # NotParsed)
              => parserOutput = Parse(pair[1], NoParams)

(***************************************************************************)
(* Claims about query(): parameters and the query cache                    *)
(***************************************************************************)

\* C22: a query request that carries params executes the same command through
\* the worker pool as locally: in both paths the command that is executed is
\* the parsed statement with every @name that has a bound parameter replaced
\* by the bound value.
C22_ParamsBoundOnBothPaths ==
    \A k \in DOMAIN calls :
        (calls[k].params # NoParams /\ calls[k].executed) =>
            calls[k].cmd.record
                = BindParameters(Parse(calls[k].query, NoParams), calls[k].params)

\* C27: the cached template of a query string is never modified, and the
\* command used on a cache hit is structurally equal to a fresh parse of the
\* string and shares no mutable sub-object (criteria tree, insert data, update
\* assignments) with the command of an earlier execution.
C27_CacheHitSharesNothing ==
    /\ \A e \in DOMAIN queryCache :
          queryCache[e].cmd.record = Parse(queryCache[e].key, NoParams)
    /\ \A k \in DOMAIN calls :
          calls[k].hit =>
              /\ calls[k].cmd.record = Parse(calls[k].query, NoParams)
              /\ \A j \in 1 .. k - 1 :
                    calls[j].executed =>
                        MutableObjects(calls[j].cmd) \cap MutableObjects(calls[k].cmd) = {}

(***************************************************************************)
(* Claims about dropping a database                                        *)
(***************************************************************************)

\* C28: a successful drop of database d (request drop_database or statement
\* DROP DATABASE / BAKAR WILAYAH) closes every open engine handle for d, in
\* the front-end registry and in any worker that has d open: in the step
\* that deletes the file of d, no handle for d remains in `databases` or in
\* the dbCache of a worker.
C28_DropClosesEveryHandle ==
    [][\A d \in DbNames :
          (d \in files /\ d \notin files') =>
              /\ d \notin databases'
              /\ \A w \in Workers : d \notin dbCache'[w]]_vars

(***************************************************************************)
(* Claims about INSERT: triggers and schemas                               *)
(***************************************************************************)

\* the triggers the last INSERT met whose action did not succeed
FailedTriggers ==
    {k \in DOMAIN lastInsert.triggers :
        /\ lastInsert.triggers[k].event = "INSERT"
        /\ TriggerOutcome(lastInsert.triggers[k].action) # "done"}

\* C29: a failing BEFORE or AFTER trigger is never fatal: an INSERT whose data
\* passes validation and that meets a trigger whose action fails still
\* completes: its row is stored and indexed, every trigger of the table for
\* INSERT has been run, and the statement returns its normal success result.
C29_TriggerFailureNotFatal ==
    (lastInsert.result \notin {"none", "Error"} /\ FailedTriggers # {}) =>
        /\ lastInsert.result = "1 bibit tertanam."
        /\ lastInsert.ran =
              Cardinality({k \in DOMAIN lastInsert.triggers :
                              lastInsert.triggers[k].event = "INSERT"})
        /\ Len(tableData) > 0
        /\ Len(indexedRows) = Len(tableData)

\* the kind of value a type of a schema stores
KindOf(type) ==
    CASE ToUpperCase(type) \in {"ANGKA", "NUMBER"} -> "number"
      [] ToUpperCase(type) \in {"BENAR_SALAH", "BOOLEAN"} -> "boolean"
      [] OTHER -> "string"

\* C30: for a table with a schema, the row stored by a successful INSERT has
\* a value of the declared kind in each schema field that is present and not
\* null, whether the statement gave the value or the default filled it; a
\* missing field with a default is filled with it; and an INSERT whose values
\* are all of the declared kinds is rejected only when it misses a required
\* field that has no default, in which case it is always rejected.
C30_SchemaKindsAndDefaults ==
    LET schema == lastInsert.schema
        data == lastInsert.data
        succeeded == lastInsert.result = "1 bibit tertanam."
        rejected == lastInsert.result = "Error"
        row == tableData[Len(tableData)]
        HasDefault(field) == schema[field].default.kind # "undefined"
        MissesRequired(field) ==
            schema[field].required /\ field \notin DOMAIN data /\ ~HasDefault(field)
    IN  (schema # NoSchema /\ lastInsert.result # "none") =>
            /\ succeeded =>
                  \A field \in DOMAIN schema :
                      /\ (field \in DOMAIN row /\ row[field].kind # "null")
                            => row[field].kind = KindOf(schema[field].type)
                      /\ (field \notin DOMAIN data /\ HasDefault(field))
                            => (field \in DOMAIN row /\ row[field] = schema[field].default)
            /\ (\E field \in DOMAIN schema : MissesRequired(field)) => rejected
            /\ (/\ rejected
                /\ DOMAIN data # {}
                /\ \A field \in DOMAIN schema \cap DOMAIN data :
                      data[field].kind = KindOf(schema[field].type))
                  => \E field \in DOMAIN schema : MissesRequired(field)

(***************************************************************************)
(* Claims about scans: LIMIT, OFFSET and LIKE                              *)
(***************************************************************************)

\* the rows of the call that pass an equality criteria, in chain order
Filtered ==
    LET Passes(row) ==
            scanInput.criteria = NoCriteria \/ row[scanInput.criteria.key] = scanInput.criteria.val
    IN  SelectSeq(scanInput.items, Passes)

IsLimitCall == scanInput.criteria = NoCriteria \/ scanInput.criteria.op = "="

\* C31: a scan or SELECT with LIMIT n and OFFSET m returns exactly the rows at
\* positions [m, m+n) of the filtered result (m = 0 for a scan, which has no
\* offset): LIMIT 0 returns no row, an OFFSET at or beyond the size returns no
\* row, and the result never has more than n rows.
C31_LimitOffsetWindow ==
    (IsLimitCall /\ scanOutput.call # "none" /\ scanInput.limit # NoLimit) =>
        LET n == scanInput.limit
            m == IF scanOutput.call = "scan" \/ scanInput.offset = NoLimit
                 THEN 0 ELSE scanInput.offset
        IN  /\ Len(scanOutput.rows) <= n
            /\ scanOutput.rows =
                  [k \in 1 .. Len(scanOutput.rows) |-> Filtered[m + k]]
            /\ Len(scanOutput.rows) = n \/ m + Len(scanOutput.rows) >= Len(Filtered)

\* LIKE as documented: `%` any sequence, `_` any one character, every other
\* character itself, without regard to case
RECURSIVE LikeMatches(_, _)
LikeMatches(pattern, val) ==
    IF pattern = <<>> THEN val = <<>>
    ELSE IF Head(pattern) = "%"
    THEN \/ LikeMatches(Tail(pattern), val)
         \/ val # <<>> /\ LikeMatches(pattern, Tail(val))
    ELSE /\ val # <<>>
         /\ Head(pattern) = "_" \/ Fold(Head(pattern)) = Fold(Head(val))
         /\ LikeMatches(Tail(pattern), Tail(val))

\* C32: for `field LIKE p` a row matches exactly when its value matches p
\* with `%` for any sequence, `_` for any one character and every other
\* character, regex metacharacters included, for itself, without regard to
\* case, on the inlined path of the scan and on the path of the evaluator.
C32_LikeMatchesPattern ==
    (scanOutput.call = "scan" /\ ~IsLimitCall) =>
        /\ ~scanOutput.thrown
        /\ (scanOutput.rows # <<>>)
              = LikeMatches(scanInput.criteria.val, scanInput.items[1].f)

(***************************************************************************)
(* Claims about stored procedures                                          *)
(***************************************************************************)
\* the row the last call wrote
CalledRow == tableData[Len(tableData)]

\* the last call ran the body of its procedure to the end
BodyRan == lastCall.result = "1 bibit tertanam."

\* C33: a call runs the body with every @param replaced by the argument at the
\* same position, so the row written holds the arguments; a call with the
\* wrong number of arguments fails and executes nothing
C33_ProcedureBindsArguments ==
    /\ BodyRan =>
          /\ Len(tableData) = lastCall.rows + 1
          /\ \A k \in DOMAIN CalledRow : \A i \in DOMAIN lastCall.params :
                lastInsert.data[k] = Val("string", lastCall.params[i])
                    => CalledRow[k] = lastCall.args[i]
    /\ (/\ lastCall.name \in DOMAIN procedures
        /\ Len(lastCall.args) # Len(procedures[lastCall.name].params))
          => lastCall.result = "Error" /\ Len(tableData) = lastCall.rows

(***************************************************************************)
(* Claims about batches of rows                                            *)
(***************************************************************************)
\* insertMany has just refused a batch for a row that fails validation
BatchRefused == lastBatch.failedAt > 0

\* C34: when validation fails for any row of a batch, the step that leaves
\* the batch refused fires no BEFORE trigger, writes and allocates no page, adds no
\* index entry, writes no audit record and leaves the catalog entry unchanged
C34_ValidationBeforeSideEffects ==
    [][BatchRefused' =>
          /\ lastBatch'.fired = 0
          /\ lastBatch'.result = "Error"
          /\ UNCHANGED <<tableData, indexedRows, auditLog, catalog>>]_vars

\* a batch refused for its second row, its first row being valid, on a table
\* with a BEFORE trigger
C34_RefusedAtSecondRow ==
    /\ lastBatch.failedAt = 2
    /\ ~ValidateData(lastBatch.rows[1]).thrown
    /\ \E k \in DOMAIN triggers : triggers[k].timing = "BEFORE"

(***************************************************************************)
(* Claims about the load and the promises of the thread pool               *)
(***************************************************************************)
\* the queries dispatched to worker w whose reply the pool has not handled:
\* those the worker has not taken yet and those whose reply is on its way
Unanswered(w) == Len(inbox[w]) + Len(outbox[w])

\* C35: activeTasks[w] is the number of queries dispatched to worker w and not
\* yet answered; it is never negative and is 0 whenever the worker has
\* answered everything sent to it
C35_ActiveTasksCountsUnanswered ==
    \A w \in Workers :
        /\ activeTasks[w] >= 0
        /\ activeTasks[w] = Unanswered(w)
        /\ Unanswered(w) = 0 => activeTasks[w] = 0

\* the promise of request id has been resolved or rejected
IsSettled(id) == id \in DOMAIN settled /\ settled[id] # "pending"

\* request id was dispatched and its promise is not settled
Waiting(id) == id \in DOMAIN settled /\ settled[id] = "pending"

\* C36: every query dispatched with execute is eventually settled (an id is
\* never dispatched twice and a settled promise stays settled, so this is the
\* same as: from some point on no request is waiting); it is settled once, by
\* the reply, the timer or the crash cleanup, and never again; and an id is in
\* the pending table, where its timer is kept, exactly as long as it is not
\* settled
C36_SettledExactlyOnce ==
    /\ <>[](\A id \in RequestIds : ~Waiting(id))
    /\ [][\A id \in DOMAIN settled : IsSettled(id) => settled'[id] = settled[id]]_vars
    /\ [](\A id \in DOMAIN settled : IsSettled(id) <=> id \notin DOMAIN pendingRequests)

\* C36 witness: requests were settled in each of the three ways and nothing
\* is pending
C36_Witness ==
    /\ \A way \in {"resolved", "rejected_timeout", "rejected_crash"} :
          \E id \in DOMAIN settled : settled[id] = way
    /\ DOMAIN pendingRequests = {}

(***************************************************************************)
(* Claims about the loops of the parser                                    *)
(***************************************************************************)
\* C37: parse terminates on every finite token sequence: a loop that scans
\* for a closing parenthesis or a keyword stops at the end of the tokens when
\* the token it looks for is missing
C37_ParseTerminates ==
    parserOutput # NotParsed => parserOutput.type # "DIVERGES"

(***************************************************************************)
(* Claims about the frames of a connection                                 *)
(***************************************************************************)
\* the requests of connection c whose #handleQuery call waits for the pool or
\* for its turn in the microtask queue
InProgress(c) ==
    Cardinality({i \in DOMAIN awaiting : awaiting[i].conn = c})
        + Cardinality({k \in DOMAIN jobs : jobs[k].conn = c})

\* C40: every frame received on a connection is answered with exactly one
\* response frame, which carries a type: the frames written are as many as
\* the frames received, those whose query is still running aside
C40_OneResponsePerFrame ==
    \A c \in Conns :
        /\ nSent[c] + InProgress(c) = nReceived[c]
        /\ lastResp[c].type # None

(***************************************************************************)
(* Claims about the client set and about the WAL of the engines            *)
(***************************************************************************)
\* C38: the client set holds exactly the sockets that are still open,
\* activeConnections is its size and never exceeds maxConnections, and a
\* connection is refused for the limit only when maxConnections sockets are
\* really open
C38_ClientsAreOpenSockets ==
    /\ clients = OpenSockets
    /\ activeConnections = Cardinality(clients)
    /\ activeConnections <= MaxConnections
    /\ \A s \in Sockets : sockets[s].state = "refused" => sockets[s].others = MaxConnections

\* C39: a database opened by a pool worker has its WAL enabled if and only if
\* the wal configuration of the server enables it, as the same database
\* opened by the front-end has
C39_WorkerWalAsConfigured ==
    \A w \in Workers : \A name \in DOMAIN workerEngines[w] :
        /\ (workerEngines[w][name] = "enabled") <=> WalConfig(serverConfig).enabled
        /\ name \in DOMAIN localEngines =>
              ((workerEngines[w][name] = "enabled") <=> (localEngines[name] = "enabled"))

=============================================================================
